---- MODULE Spec2Model ----
(***************************************************************************)
(* Antenna tracker stepper motor controller (src/tracker/controller.py).   *)
(*                                                                         *)
(* Two StepperAxis objects ("az", "el") owned by one AntennaTracker.       *)
(* Angles are integer degrees; steps_per_degree is the exact rational      *)
(* steps_per_rev * microstepping * gear_ratio / 360, and int() truncates   *)
(* toward zero as Python's does.  A "pulse" is one call of _step_pulse;    *)
(* its direction is the argument of the last _set_direction on the axis.   *)
(* Every thread is a record with a pc; a step of the model is one          *)
(* statement, or a run of statements that touch no shared state twice.     *)
(***************************************************************************)
EXTENDS Integers, Sequences, FiniteSets, TLC

\* ------------------------------------------------------------------ bounds
MaxMoves == 2        \* _execute_move runs (threads, blocking calls) alive at once per axis
MaxTarget == 2       \* requested angles range over -MaxTarget..MaxTarget degrees
MaxHomes == 2        \* StepperAxis.home() calls per axis
MaxLoops == 2        \* tracking-loop threads alive at once
MaxTicks == 1        \* corrections one tracking loop issues
MaxCalls == 2        \* AntennaTracker methods called in one run
MaxLines == 2        \* lines a peer sends on one connection

Axes == {"az", "el"}
Slots == 1..MaxMoves
Targets == (0 - MaxTarget)..MaxTarget
NoMove == 0
NoTarget == 0 - 99
Backends == {"pigpio", "gpio", "sim"}
Clients == {"c1", "c2"}      \* threads calling into the AntennaTracker
Operators == {"c1"}          \* ... of which these call every method, the rest only stop()
Loops == 1..MaxLoops
NoLoop == 0
NoClient == "none"

\* config["tracker"]: the park position and the tracking tolerance
TrackerCfg == [park_azimuth |-> 1, park_elevation |-> 0, position_tolerance |-> 0]

\* The positions goto is called with and the target feed returns.
Feed == {<<0, 1>>, <<MaxTarget, 0 - 1>>}

\* ------------------------------------------------------- AxisConfig values
\* Axis configurations the model is checked for: a 2.5 step/deg axis, a
\* 1 step/deg axis with an asymmetric range, and an axis whose configured
\* acceleration is 0.
CfgFine ==
  [gear_ratio |-> 5, steps_per_rev |-> 90, microstepping |-> 2,
   min_angle |-> 0 - 1, max_angle |-> 1, max_speed |-> 1, acceleration |-> 2,
   home_offset |-> 0 - 1]
CfgUnit ==
  [gear_ratio |-> 1, steps_per_rev |-> 360, microstepping |-> 1,
   min_angle |-> 0 - 1, max_angle |-> 2, max_speed |-> 2, acceleration |-> 1,
   home_offset |-> 1]
CfgNoAccel ==
  [gear_ratio |-> 1, steps_per_rev |-> 360, microstepping |-> 1,
   min_angle |-> 0 - 1, max_angle |-> 1, max_speed |-> 2, acceleration |-> 0,
   home_offset |-> 0]
Configs == {CfgFine, CfgUnit, CfgNoAccel}

VARIABLES
  cfg,             \* [Axes -> AxisConfig]
  backend,         \* pulse backend chosen at start-up
  switch,          \* what the home switch input does: "never" closes, or "any"
  position_steps,  \* StepperAxis.position_steps
  moving,          \* StepperAxis._moving
  stop_event,      \* StepperAxis._stop_event
  lock,            \* StepperAxis._lock: the slot of the move holding it, or NoMove
  dir,             \* level _set_direction last put on the pin (TRUE = forward)
  moves,           \* [Axes -> [Slots -> record]]: the runs of _execute_move
  homing,          \* [Axes -> record]: the run of StepperAxis.home
  stopper,         \* the thread calling StepperAxis.stop()
  net_pulses,      \* history: forward pulses minus backward pulses emitted
  lastDone,        \* history: requested target of the last move that ran to
                   \* completion on the axis, NoTarget once anything else
                   \* has moved the axis
  state,           \* AntennaTracker.state (TrackerState)
  enabled,         \* [Axes -> BOOLEAN]: the enable pin, as last written
  clients,         \* [Clients -> record]: the calls into the AntennaTracker
  loops,           \* [Loops -> record]: the threads running _tracking_loop
  tracking_thread, \* AntennaTracker._tracking_thread
  tracking_stop,   \* AntennaTracker._tracking_stop
  calls,           \* history: AntennaTracker methods called so far
  quiet,           \* history: "yes" when AntennaTracker.stop() has returned
                   \* and no operation has been requested since it was
                   \* called, "stopping" while that can still come about
  wire,            \* bytes the peer has sent that data_received has not seen
  buffer,          \* RotatorProtocol.buffer
  out,             \* what has been passed to transport.write, in order
  closed,          \* transport.close() has been called
  pending,         \* the reply _handle_command returns once the tracker
                   \* call it is in has returned
  log,             \* history: the tracker calls of the session, in order
  last,            \* history: what was decided for the last command
  stream,          \* history: everything the peer sends in the session
  lib,             \* what the host offers: whether pigpio and RPi.GPIO can
                   \* be imported and what the pigpio daemon does
  HAS_PIGPIO,      \* the module flags of lines 21-32: "True", "False", or
  HAS_GPIO,        \* "unset" while the name has not been assigned
  pi,              \* AntennaTracker.pi is a connected pigpio instance
  boot,            \* how far import and AntennaTracker.__init__ have come
  main,            \* where rotator_server.main is, from its try block on
  released         \* how many times the pulse backend has been released

startupVars == <<lib, HAS_PIGPIO, HAS_GPIO, pi, boot>>
shutdownVars == <<main, released>>
envVars == <<cfg, backend, switch, startupVars, shutdownVars>>
sessionVars == <<wire, buffer, out, closed, pending, log, last, stream>>
trackerVars == <<state, enabled, clients, loops, tracking_thread, tracking_stop,
                 quiet, calls>>
axisVars == <<position_steps, moving, stop_event, lock, dir, moves, net_pulses,
              lastDone>>
vars == <<envVars, axisVars, homing, stopper, trackerVars, sessionVars>>

\* ------------------------------------------------------------ arithmetic
\* Python int(n/d) for d > 0: truncation toward zero.
Trunc(n, d) == IF n >= 0 THEN n \div d ELSE 0 - ((0 - n) \div d)

Min(x, y) == IF x <= y THEN x ELSE y
Max(x, y) == IF x >= y THEN x ELSE y
Abs(x) == IF x >= 0 THEN x ELSE 0 - x

\* AxisConfig.steps_per_degree = StepsPerRevTotal / 360
StepsPerRevTotal(c) == c.steps_per_rev * c.microstepping * c.gear_ratio

\* int(deg * steps_per_degree)
ToSteps(c, deg) == Trunc(deg * StepsPerRevTotal(c), 360)

\* A clamp that forgets the upper limit.
ClampLowOnly(c, deg) == Max(c.min_angle, deg)

\* move_to: target_deg = max(min_angle, min(max_angle, target_deg))
Clamp(c, deg) == Max(c.min_angle, Min(c.max_angle, deg))

\* _execute_move: accel_steps = int(max_speed_sps ** 2 / (2 * accel_sps2)),
\* with max_speed_sps = max_speed * spd and accel_sps2 = acceleration * spd.
\* The division raises ZeroDivisionError when accel_sps2 is 0.
AccelRaises(c) == c.acceleration * StepsPerRevTotal(c) = 0

\* lines 195-196: max_speed_sps and accel_sps2, each as 360 times its value
\* (steps_per_degree is StepsPerRevTotal / 360)
MaxSpeed360(c) == c.max_speed * StepsPerRevTotal(c)
Accel360(c) == c.acceleration * StepsPerRevTotal(c)

\* lines 199-203: accel_steps = int(max_speed_sps ** 2 / (2 * accel_sps2)),
\* cut to total_steps // 2 for a triangular profile
AccelSteps(c, total) ==
  Min(((MaxSpeed360(c) * MaxSpeed360(c)) \div 720) \div Accel360(c), total \div 2)

\* line 205: decel_start = total_steps - accel_steps
DecelStart(c, total) == total - AccelSteps(c, total)

\* The 100 steps/s of lines 208 and 223.
MinSpeed == 100

\* A ramp that starts from step 0.
RampIndexFromZero(step_num) == step_num

\* line 217: the ramp is computed for step_num + 1
RampIndex(step_num) == step_num + 1

\* Squares of speeds, each as 360 * 360 times its value: the ramp speed
\* sqrt(2 * accel_sps2 * k) of lines 217 and 222, max_speed_sps, the 100
\* steps/s floor, and the start speed max(accel_sps2 * 0.01, 100) of line 208
\* (exact for accelerations up to 10000 steps/s^2).
RampSq(c, k) == 720 * Accel360(c) * k
MaxSq(c) == MaxSpeed360(c) * MaxSpeed360(c)
MinSq == (360 * MinSpeed) * (360 * MinSpeed)
StartSq(c) ==
  Max(Accel360(c) \div 100, 360 * MinSpeed) * Max(Accel360(c) \div 100, 360 * MinSpeed)

\* lines 208-223: current_speed (squared, times 360 * 360) at the delay of step
\* step_num of an uncancelled run: the ramp capped at max_speed_sps while
\* accelerating, the ramp of the steps remaining floored at 100 while
\* decelerating, and in between the value left by the last accelerating step,
\* or the start speed when there was none.
SpeedSq(c, total, step_num) ==
  IF step_num < AccelSteps(c, total)
    THEN Min(RampSq(c, RampIndex(step_num)), MaxSq(c))
  ELSE IF step_num >= DecelStart(c, total)
    THEN Max(RampSq(c, total - step_num), MinSq)
  ELSE IF AccelSteps(c, total) = 0 THEN StartSq(c)
  ELSE Min(RampSq(c, RampIndex(AccelSteps(c, total) - 1)), MaxSq(c))

\* line 225: delay = 1.0 / current_speed raises ZeroDivisionError at speed 0
DelayRaises(c, total, step_num) == SpeedSq(c, total, step_num) = 0

\* home: max_home_steps = int(max_angle * steps_per_degree * 1.1)
MaxHomeSteps(c) == Trunc(c.max_angle * StepsPerRevTotal(c) * 11, 3600)

\* home: the back-off, range(int(0.5 * steps_per_degree))
BackoffSteps(c) == Trunc(StepsPerRevTotal(c), 720)

\* A home that keeps the position it arrived with.
HomePositionKept(c, pos) == pos

\* home line 282: position_steps = int(home_offset * steps_per_degree)
HomePosition(c, pos) == ToSteps(c, c.home_offset)

\* StepperAxis.position_degrees (line 157): position_steps / steps_per_degree,
\* as the exact fraction num / den.
PositionDegrees(c, steps) == [num |-> steps * 360, den |-> StepsPerRevTotal(c)]

\* ------------------------------------------------------------------- Init
IdleMove ==
  [pc |-> "unused", raw |-> 0, target |-> 0,
   sign |-> 0, total |-> 0, step_num |-> 0, load |-> 0,
   pre |-> FALSE, seen |-> 0 - 1, covered |-> FALSE, repeat |-> FALSE,
   owner |-> NoClient]

\* A client thread: the AntennaTracker method it is in (op), where in it
\* (pc), its arguments, the move threads it will join (saz, sel), what its
\* last home() returned (ret), whether its goto was called while parked, and
\* whether a stop() call has overlapped its call (disturbed).
IdleClient ==
  [pc |-> "idle", op |-> "none", az |-> 0, el |-> 0, blocking |-> FALSE,
   saz |-> NoMove, sel |-> NoMove, ret |-> TRUE, after_park |-> FALSE,
   disturbed |-> FALSE]

\* A thread running _tracking_loop; el is the elevation target of its tick,
\* over whether el_error exceeded the tolerance when the tick computed it,
\* ticks the corrections it has issued.
IdleLoop == [pc |-> "unused", el |-> 0, over |-> FALSE, ticks |-> 0]

IdleHome == [pc |-> "idle", i |-> 0, k |-> 0, load |-> 0, result |-> FALSE,
             cancelled |-> FALSE, runs |-> 0]

\* What _handle_command decides for a command, before it touches the
\* tracker: kind is the branch taken, az and el the arguments of a goto.
Decision(kind, az, el) == [kind |-> kind, az |-> az, el |-> el]
Plain(kind) == Decision(kind, 0, 0)

\* _handle_command has nothing to return yet, or returned None.
NoResponse == [kind |-> "none"]

\* A connection on which the peer sends the bytes w.
Connected(w) ==
  /\ wire = w
  /\ stream = w
  /\ buffer = <<>>
  /\ out = <<>>
  /\ closed = FALSE
  /\ pending = NoResponse
  /\ log = <<>>
  /\ last = Plain("none")
  /\ main = [in |-> "serve", step |-> "none"]
  /\ released = 0

\* No rotator server is running.
NoSession == Connected(<<>>)

\* A host on which backend b is the one selected, after start-up.
Started ==
  /\ lib = [pigpio |-> backend = "pigpio", gpio |-> backend = "gpio",
            daemon |-> "connected"]
  /\ HAS_PIGPIO = IF backend = "pigpio" THEN "True" ELSE "False"
  /\ HAS_GPIO = IF backend = "pigpio" THEN "unset"
                ELSE IF backend = "gpio" THEN "True" ELSE "False"
  /\ pi = (backend = "pigpio")
  /\ boot = "done"

InitAxes ==
  /\ position_steps = [a \in Axes |-> 0]
  /\ moving = [a \in Axes |-> FALSE]
  /\ stop_event = [a \in Axes |-> FALSE]
  /\ lock = [a \in Axes |-> NoMove]
  /\ dir = [a \in Axes |-> TRUE]
  /\ moves = [a \in Axes |-> [s \in Slots |-> IdleMove]]
  /\ homing = [a \in Axes |-> IdleHome]
  /\ stopper = [pc |-> "idle", axis |-> "az"]
  /\ net_pulses = [a \in Axes |-> 0]
  /\ lastDone = [a \in Axes |-> NoTarget]
  /\ state = [az_position |-> PositionDegrees(cfg["az"], 0),
              el_position |-> PositionDegrees(cfg["el"], 0),
              az_target |-> 0, el_target |-> 0,
              is_tracking |-> FALSE, is_slewing |-> FALSE, is_homed |-> FALSE,
              is_parked |-> FALSE, motors_enabled |-> FALSE]
  /\ enabled = [a \in Axes |-> FALSE]
  /\ clients = [c \in Clients |-> IdleClient]
  /\ loops = [k \in Loops |-> IdleLoop]
  /\ tracking_thread = NoLoop
  /\ tracking_stop = FALSE
  /\ quiet = "no"
  /\ calls = 0

\* One axis under every configuration, on hardware whose switch may close.
Init ==
  /\ cfg \in {c \in [Axes -> Configs] : c["el"] = CfgUnit}
  /\ backend = "pigpio"
  /\ switch = [a \in Axes |-> "any"]
  /\ InitAxes
  /\ Started
  /\ NoSession

\* ------------------------------------------------------------ StepperAxis
InFlight(a, s) == moves[a][s].pc \in {"lock", "plan", "check", "pulse", "count"}
InLoop(a, s) == moves[a][s].pc \in {"check", "pulse", "count"}
Unused(a) == {s \in Slots : moves[a][s].pc = "unused"}
Free(a) == {s \in Slots : ~InFlight(a, s) /\ moves[a][s].owner = NoClient}
Lowest(S) == CHOOSE s \in S : \A n \in S : s <= n
HomeRunning(a) == homing[a].pc \in {"search", "hpulse", "hcount", "backoff"}
AtRest(a) == ~HomeRunning(a) /\ \A s \in Slots : ~InFlight(a, s)

\* What is left of a run of _execute_move once it has returned or raised;
\* repeat records that it followed a completed move to the same target.
Ended(a, s, how) == [IdleMove EXCEPT !.pc = how, !.repeat = moves[a][s].repeat,
                                     !.owner = moves[a][s].owner]

\* _set_direction, lines 147-151: the level put on the direction pin.  pigpio
\* writes val (1 for forward, 0 for backward); RPi.GPIO writes
\* `val if forward else not val`, which is 1 for forward and `not 0` for
\* backward.  (Simulation writes nothing; the level kept is the one asked for.)
Level(forward) == IF backend = "gpio" THEN TRUE ELSE forward

\* _step_pulse: one pulse on the axis, in the direction last written.
Pulse(a) ==
  net_pulses' = [net_pulses EXCEPT ![a] = IF dir[a] THEN @ + 1 ELSE @ - 1]

\* A move_to that sets the cancellation flag when the axis is busy.
StartMoveCancelling(a, s, t, blocking, joiner) ==
  /\ moves' = [moves EXCEPT ![a][s] =
       [IdleMove EXCEPT !.pc = "lock", !.raw = t, !.target = Clamp(cfg[a], t),
                        !.owner = joiner]]
  /\ stop_event' = [stop_event EXCEPT ![a] = \E n \in Slots : InFlight(a, n)]

\* move_to (lines 164-173), its run of _execute_move kept in record s (one
\* no run in flight is using); joiner is the thread that will join it.  A
\* non-blocking call clears the
\* cancellation flag and starts a thread running _execute_move; a blocking
\* call runs _execute_move on the caller's thread and clears nothing.
StartMove(a, s, t, blocking, joiner) ==
  /\ moves' = [moves EXCEPT ![a][s] =
       [IdleMove EXCEPT !.pc = "lock", !.raw = t, !.target = Clamp(cfg[a], t),
                        !.owner = joiner]]
  /\ stop_event' = IF blocking THEN stop_event
                   ELSE [stop_event EXCEPT ![a] = FALSE]

move_to(a, s, t, blocking) ==
  /\ s \in Free(a)
  /\ StartMove(a, s, t, blocking, NoClient)
  /\ UNCHANGED <<envVars, sessionVars, trackerVars, position_steps, moving, lock, dir, net_pulses, lastDone,
                 homing, stopper>>

\* A lock that is never waited for.
LockIgnored(a) == TRUE

\* line 177: with self._lock blocks while another thread holds the lock
LockFree(a) == lock[a] = NoMove

\* _execute_move lines 177-178: with self._lock: self._moving = True
MoveAcquire(a, s) ==
  /\ moves[a][s].pc = "lock"
  /\ LockFree(a)
  /\ lock' = [lock EXCEPT ![a] = s]
  /\ moving' = [moving EXCEPT ![a] = TRUE]
  /\ moves' = [moves EXCEPT ![a][s].pc = "plan",
                            ![a][s].repeat = (lastDone[a] = moves[a][s].raw)]
  /\ UNCHANGED <<envVars, sessionVars, trackerVars, position_steps, stop_event, dir, net_pulses, lastDone,
                 homing, stopper>>

\* lines 180-181: delta_steps = int(target_deg * steps_per_degree) - position_steps
MoveDelta(c, target_deg, pos) == ToSteps(c, target_deg) - pos

\* line 191: step_sign = 1 if delta_steps > 0 else -1
StepSign(delta) == IF delta > 0 THEN 1 ELSE 0 - 1

\* line 187: self._set_direction(delta_steps > 0)
Forward(delta) == delta > 0

\* _execute_move lines 180-208: the step delta, the early return on 0, the
\* direction write and the profile set-up.  The division by accel_sps2 raises
\* when it is 0: the with-block releases the lock and _moving is left True.
MovePlan(a, s) ==
  LET delta == MoveDelta(cfg[a], moves[a][s].target, position_steps[a]) IN
  /\ moves[a][s].pc = "plan"
  /\ IF delta = 0
       THEN /\ moving' = [moving EXCEPT ![a] = FALSE]
            /\ lock' = [lock EXCEPT ![a] = NoMove]
            /\ moves' = [moves EXCEPT ![a][s] = Ended(a, s, "done")]
            /\ lastDone' = [lastDone EXCEPT ![a] = moves[a][s].raw]
            /\ UNCHANGED dir
       ELSE /\ dir' = [dir EXCEPT ![a] = Level(Forward(delta))]
            /\ IF AccelRaises(cfg[a])
                 THEN /\ lock' = [lock EXCEPT ![a] = NoMove]
                      /\ moves' = [moves EXCEPT ![a][s] = Ended(a, s, "raised")]
                      /\ lastDone' = [lastDone EXCEPT ![a] = NoTarget]
                 ELSE /\ moves' = [moves EXCEPT ![a][s].pc = "check",
                                     ![a][s].total = Abs(delta),
                                     ![a][s].sign = StepSign(delta),
                                     ![a][s].step_num = 0]
                      /\ UNCHANGED <<lock, lastDone>>
            /\ UNCHANGED moving
  /\ UNCHANGED <<envVars, sessionVars, trackerVars, position_steps, stop_event, net_pulses, homing, stopper>>

\* A loop that stops one step short.
LoopDoneShort(step_num, total) == step_num >= total - 1

\* line 210: for step_num in range(total_steps)
LoopDone(step_num, total) == step_num >= total

\* A loop that never looks at the cancellation flag.
StopOverlooked(a) == FALSE

\* line 211: if self._stop_event.is_set(): break
StopRequested(a) == stop_event[a]

\* lines 210-225 and 235: the loop head and the delay of the step.  Leaving
\* the loop (exhausted, or cancelled) clears _moving and releases the lock; a
\* delay that cannot be computed raises out of the with-block.
MoveCheck(a, s) ==
  /\ moves[a][s].pc = "check"
  /\ IF LoopDone(moves[a][s].step_num, moves[a][s].total)
       THEN /\ moving' = [moving EXCEPT ![a] = FALSE]
            /\ lock' = [lock EXCEPT ![a] = NoMove]
            /\ moves' = [moves EXCEPT ![a][s] = Ended(a, s, "done")]
            /\ lastDone' = [lastDone EXCEPT ![a] = moves[a][s].raw]
       ELSE IF StopRequested(a)
         THEN /\ moving' = [moving EXCEPT ![a] = FALSE]
              /\ lock' = [lock EXCEPT ![a] = NoMove]
              /\ moves' = [moves EXCEPT ![a][s] = Ended(a, s, "cancelled")]
              /\ lastDone' = [lastDone EXCEPT ![a] = NoTarget]
         ELSE IF DelayRaises(cfg[a], moves[a][s].total, moves[a][s].step_num)
           THEN /\ lock' = [lock EXCEPT ![a] = NoMove]
                /\ moves' = [moves EXCEPT ![a][s] = Ended(a, s, "raised")]
                /\ lastDone' = [lastDone EXCEPT ![a] = NoTarget]
                /\ UNCHANGED moving
           ELSE /\ moves' = [moves EXCEPT ![a][s].pc = "pulse"]
                /\ UNCHANGED <<moving, lock, lastDone>>
  /\ UNCHANGED <<envVars, sessionVars, trackerVars, position_steps, stop_event, dir, net_pulses, homing, stopper>>

\* line 227 and the read of line 228: self._step_pulse(...); position_steps + ...
MovePulse(a, s) ==
  /\ moves[a][s].pc = "pulse"
  /\ Pulse(a)
  /\ moves' = [moves EXCEPT ![a][s].pc = "count", ![a][s].load = position_steps[a]]
  /\ UNCHANGED <<envVars, sessionVars, trackerVars, position_steps, moving, stop_event, lock, dir, lastDone,
                 homing, stopper>>

\* A pulse counted twice.
CountedTwice(load, sign) == load + sign + sign

\* line 228: the position a move stores for the pulse it emitted
Counted(load, sign) == load + sign

\* the write of line 228 (self.position_steps += step_sign) and the sleep
MoveCount(a, s) ==
  /\ moves[a][s].pc = "count"
  /\ position_steps' = [position_steps EXCEPT
       ![a] = Counted(moves[a][s].load, moves[a][s].sign)]
  /\ moves' = [moves EXCEPT ![a][s].pc = "check", ![a][s].step_num = @ + 1,
                            ![a][s].load = 0]
  /\ UNCHANGED <<envVars, sessionVars, trackerVars, moving, stop_event, lock, dir, net_pulses, lastDone,
                 homing, stopper>>

\* stop line 239: self._stop_event.set().  seen records, for a move that is in
\* its pulse loop, the steps it had counted when stop() was first called.
SetStop(a) ==
  /\ stop_event' = [stop_event EXCEPT ![a] = TRUE]
  /\ moves' = [moves EXCEPT ![a] = [s \in Slots |->
       IF InLoop(a, s)
         THEN [moves[a][s] EXCEPT !.pre = TRUE,
                 !.seen = IF @ < 0 THEN moves[a][s].step_num ELSE @]
       ELSE IF InFlight(a, s) THEN [moves[a][s] EXCEPT !.pre = TRUE]
       ELSE moves[a][s]]]

\* stop lines 240-241: while self._moving: time.sleep(0.001)
StopWaitOver(a) == ~moving[a]

\* pre marks the moves requested before a stop() call, covered those
\* requested before a stop() call that has returned.
Cover(a) ==
  moves' = [moves EXCEPT ![a] = [s \in Slots |->
       IF moves[a][s].pre THEN [moves[a][s] EXCEPT !.covered = TRUE]
       ELSE moves[a][s]]]

\* StepperAxis.stop, called on its own thread: line 239
StopCall(a) ==
  /\ stopper.pc = "idle"
  /\ SetStop(a)
  /\ stopper' = [pc |-> "wait", axis |-> a]
  /\ UNCHANGED <<envVars, sessionVars, trackerVars, position_steps, moving, lock, dir, net_pulses, lastDone,
                 homing>>

\* StepperAxis.stop, lines 240-241: the wait ends and stop returns
StopReturn ==
  LET a == stopper.axis IN
  /\ stopper.pc = "wait"
  /\ StopWaitOver(a)
  /\ stopper' = [pc |-> "idle", axis |-> "az"]
  /\ Cover(a)
  /\ UNCHANGED <<envVars, sessionVars, trackerVars, position_steps, moving, stop_event, lock, dir, net_pulses,
                 lastDone, homing>>

\* ------------------------------------------------------- StepperAxis.home
\* A simulation whose switch input stays open (level 1, not triggered).
SwitchReadsOpen(a) ==
  IF backend = "sim" THEN {1}
  ELSE IF switch[a] = "never" THEN {1} ELSE {0, 1}

\* lines 266-272: the level home() reads from the home switch.  Simulation
\* reads 0 (closed) every time; on hardware the input is the environment's.
SwitchReads(a) ==
  IF backend = "sim" THEN {0}
  ELSE IF switch[a] = "never" THEN {1} ELSE {0, 1}

\* home lines 250-259: self._set_direction(False) and the step budget
BeginHome(a) ==
  /\ dir' = [dir EXCEPT ![a] = Level(FALSE)]
  /\ homing' = [homing EXCEPT ![a] = [IdleHome EXCEPT !.pc = "search",
                                                     !.runs = homing[a].runs + 1]]

\* StepperAxis.home called on its own
HomeStart(a) ==
  /\ ~HomeRunning(a)
  /\ homing[a].runs < MaxHomes
  /\ BeginHome(a)
  /\ UNCHANGED <<envVars, sessionVars, trackerVars, position_steps, moving, stop_event, lock, moves,
                 net_pulses, lastDone, stopper>>

\* A search loop that takes one step more than its budget.
HomeBudgetSpentLate(i, budget) == i > budget

\* line 261: for _ in range(max_home_steps), exhausted
HomeBudgetSpent(i, budget) == i >= budget

\* home lines 261-277 and 290-291: the head of the search loop.  It returns
\* False when the budget is spent or the cancellation flag is set; it reads
\* the switch, and on 0 turns the direction forward for the back-off.
HomeCheck(a) ==
  /\ homing[a].pc = "search"
  /\ IF HomeBudgetSpent(homing[a].i, MaxHomeSteps(cfg[a]))
       THEN /\ homing' = [homing EXCEPT ![a].pc = "returned", ![a].result = FALSE]
            /\ UNCHANGED dir
       ELSE IF StopRequested(a)
         THEN /\ homing' = [homing EXCEPT ![a].pc = "returned", ![a].result = FALSE,
                                          ![a].cancelled = TRUE]
              /\ UNCHANGED dir
         ELSE \E sw \in SwitchReads(a) :
                IF sw = 0
                  THEN /\ dir' = [dir EXCEPT ![a] = Level(TRUE)]
                       /\ homing' = [homing EXCEPT ![a].pc = "backoff", ![a].k = 0]
                  ELSE /\ homing' = [homing EXCEPT ![a].pc = "hpulse"]
                       /\ UNCHANGED dir
  /\ UNCHANGED <<envVars, sessionVars, trackerVars, position_steps, moving, stop_event, lock, moves,
                 net_pulses, lastDone, stopper>>

\* line 286 and the read of line 287: a search pulse
HomePulse(a) ==
  /\ homing[a].pc = "hpulse"
  /\ Pulse(a)
  /\ homing' = [homing EXCEPT ![a].pc = "hcount", ![a].load = position_steps[a]]
  /\ UNCHANGED <<envVars, sessionVars, trackerVars, position_steps, moving, stop_event, lock, dir, moves,
                 lastDone, stopper>>

\* the write of line 287 (self.position_steps -= 1) and the sleep
HomeCount(a) ==
  /\ homing[a].pc = "hcount"
  /\ position_steps' = [position_steps EXCEPT ![a] = homing[a].load - 1]
  /\ homing' = [homing EXCEPT ![a].pc = "search", ![a].i = @ + 1, ![a].load = 0]
  /\ lastDone' = [lastDone EXCEPT ![a] = NoTarget]
  /\ UNCHANGED <<envVars, sessionVars, trackerVars, moving, stop_event, lock, dir, moves, net_pulses, stopper>>

\* lines 278-280: one pulse of the back-off; the loop does not look at the
\* cancellation flag and does not count its pulses.
HomeBackoff(a) ==
  /\ homing[a].pc = "backoff"
  /\ homing[a].k < BackoffSteps(cfg[a])
  /\ Pulse(a)
  /\ homing' = [homing EXCEPT ![a].k = @ + 1]
  /\ UNCHANGED <<envVars, sessionVars, trackerVars, position_steps, moving, stop_event, lock, dir, moves,
                 lastDone, stopper>>

\* lines 282-284: the position is reset to the home offset; home returns True
HomeFound(a) ==
  /\ homing[a].pc = "backoff"
  /\ homing[a].k >= BackoffSteps(cfg[a])
  /\ position_steps' = [position_steps EXCEPT
       ![a] = HomePosition(cfg[a], position_steps[a])]
  /\ homing' = [homing EXCEPT ![a].pc = "returned", ![a].result = TRUE]
  /\ lastDone' = [lastDone EXCEPT ![a] = NoTarget]
  /\ UNCHANGED <<envVars, sessionVars, trackerVars, moving, stop_event, lock, dir, moves, net_pulses, stopper>>

\* ---------------------------------------------------------- AntennaTracker
motionVars == <<position_steps, moving, lock, net_pulses, lastDone>>

\* _update_state (lines 487-490) applied to the record st
Updated(st) ==
  [st EXCEPT !.az_position = PositionDegrees(cfg["az"], position_steps["az"]),
             !.el_position = PositionDegrees(cfg["el"], position_steps["el"])]

\* The call of c returns; ok is what it returns.
Return(c, ok) == clients' = [clients EXCEPT ![c] = [IdleClient EXCEPT !.ret = ok]]

Idle(c) == clients[c].pc = "idle"

\* Some thread is inside AntennaTracker.stop().
InStop == \E o \in Clients : clients[o].op = "stop"

\* The record of a thread entering method op at pc.
Called(op, pc) == [IdleClient EXCEPT !.op = op, !.pc = pc, !.disturbed = InStop]

\* clients, with every call in progress marked as overlapped by a stop().
Disturbed ==
  [o \in Clients |-> IF Idle(o) THEN clients[o]
                     ELSE [clients[o] EXCEPT !.disturbed = TRUE]]
Alive(k) == loops[k].pc \in {"test", "tick_el"}
ThreadAlive == tracking_thread # NoLoop /\ Alive(tracking_thread)

\* Where a caller of stop_tracking goes on once stop_tracking has returned.
AfterStopTracking(op) ==
  CASE op = "stop" -> "stop_az"
    [] op = "park" -> "park_goto"
    [] op = "start_tracking" -> "start_spawn"
    [] OTHER -> "idle"

\* A method that begins with self.stop_tracking() is called: lines 455-456,
\* the liveness test and self._tracking_stop.set().  With no live thread
\* stop_tracking returns at once and writes nothing.
BeginStopTracking(c, op) ==
  /\ quiet' = IF op = "stop" THEN "stopping" ELSE "no"
  /\ LET others == IF op = "stop" THEN Disturbed ELSE clients IN
       IF ThreadAlive
         THEN /\ tracking_stop' = TRUE
              /\ clients' = [others EXCEPT ![c] = Called(op, "st_join")]
         ELSE /\ UNCHANGED tracking_stop
              /\ IF AfterStopTracking(op) = "idle"
                   THEN Return(c, TRUE)
                   ELSE clients' = [others EXCEPT ![c] =
                                     Called(op, AfterStopTracking(op))]

\* One of those methods is called by a thread that is in no other call.
EnterStopTracking(c, op) ==
  /\ Idle(c)
  /\ calls < MaxCalls
  /\ calls' = calls + 1
  /\ BeginStopTracking(c, op)
  /\ UNCHANGED <<envVars, sessionVars, motionVars, stop_event, dir, moves, homing, stopper,
                 state, enabled, loops, tracking_thread>>

\* AntennaTracker.stop, line 429
TrackerStopCall(c) == EnterStopTracking(c, "stop")

\* AntennaTracker.park, lines 419-422
ParkCall(c) == EnterStopTracking(c, "park")

\* AntennaTracker.start_tracking, line 445
StartTrackingCall(c) == EnterStopTracking(c, "start_tracking")

\* AntennaTracker.stop_tracking called on its own
StopTrackingCall(c) == EnterStopTracking(c, "stop_tracking")

\* stop_tracking lines 457-458: join(timeout=5) comes back, because the
\* thread has ended or because the five seconds are over, and is_tracking
\* is cleared either way.
StopTrackingJoin(c) ==
  /\ clients[c].pc = "st_join"
  /\ state' = [state EXCEPT !.is_tracking = FALSE]
  /\ IF AfterStopTracking(clients[c].op) = "idle"
       THEN Return(c, TRUE)
       ELSE clients' = [clients EXCEPT ![c].pc = AfterStopTracking(clients[c].op)]
  /\ UNCHANGED <<envVars, sessionVars, calls, motionVars, stop_event, dir, moves, homing, stopper,
                 enabled, loops, tracking_thread, tracking_stop, quiet>>

\* stop lines 430-431: self.az.stop() then self.el.stop(), each setting the
\* axis's flag (line 239) ...
TrackerStopSet(c) ==
  /\ clients[c].pc \in {"stop_az", "stop_el"}
  /\ LET a == IF clients[c].pc = "stop_az" THEN "az" ELSE "el" IN
       /\ SetStop(a)
       /\ clients' = [clients EXCEPT ![c].pc =
            IF a = "az" THEN "stop_az_wait" ELSE "stop_el_wait"]
  /\ UNCHANGED <<envVars, sessionVars, calls, motionVars, dir, homing, stopper, state, enabled, loops,
                 tracking_thread, tracking_stop, quiet>>

\* ... and waiting for _moving to be False (lines 240-241).  After the
\* elevation axis, lines 432-433 clear is_slewing and refresh the positions,
\* and stop returns.
TrackerStopWait(c) ==
  /\ clients[c].pc \in {"stop_az_wait", "stop_el_wait"}
  /\ LET a == IF clients[c].pc = "stop_az_wait" THEN "az" ELSE "el" IN
       /\ StopWaitOver(a)
       /\ Cover(a)
       /\ IF a = "az"
            THEN /\ clients' = [clients EXCEPT ![c].pc = "stop_el"]
                 /\ UNCHANGED <<state, quiet>>
            ELSE /\ state' = Updated([state EXCEPT !.is_slewing = FALSE])
                 /\ quiet' = IF quiet = "no" THEN "no" ELSE "yes"
                 /\ Return(c, TRUE)
  /\ UNCHANGED <<envVars, sessionVars, calls, motionVars, stop_event, dir, homing, stopper, enabled,
                 loops, tracking_thread, tracking_stop>>

\* goto lines 396-398: the targets and is_slewing
BeginGoto(c, op, az, el, blocking) ==
  /\ state' = [state EXCEPT !.az_target = az, !.el_target = el, !.is_slewing = TRUE]
  /\ clients' = [clients EXCEPT ![c] =
       [IdleClient EXCEPT !.op = op, !.pc = "goto_az", !.az = az, !.el = el,
                          !.blocking = blocking,
                          !.after_park = (op = "goto" /\ state.is_parked),
                          !.disturbed = (clients[c].disturbed \/ InStop)]]

\* AntennaTracker.goto is called
GotoCall(c, az, el, blocking) ==
  /\ Idle(c)
  /\ calls < MaxCalls
  /\ calls' = calls + 1
  /\ BeginGoto(c, "goto", az, el, blocking)
  /\ quiet' = "no"
  /\ UNCHANGED <<envVars, sessionVars, motionVars, stop_event, dir, moves, homing, stopper,
                 enabled, loops, tracking_thread, tracking_stop>>

\* park line 423: self.goto(park_az, park_el), blocking by default; the
\* goto park makes is a newly requested operation.
ParkGoto(c) ==
  /\ clients[c].pc = "park_goto"
  /\ BeginGoto(c, "park", TrackerCfg.park_azimuth, TrackerCfg.park_elevation, TRUE)
  /\ quiet' = "no"
  /\ UNCHANGED <<envVars, sessionVars, calls, motionVars, stop_event, dir, moves, homing, stopper,
                 enabled, loops, tracking_thread, tracking_stop>>

\* A goto that joins the azimuth thread before it starts the elevation move.
AfterStartSerial(a, blocking) ==
  IF blocking THEN (IF a = "az" THEN "join_az" ELSE "join_el")
  ELSE IF a = "az" THEN "goto_el" ELSE "goto_end"

\* goto lines 404-409 and 411-412, the order of the statements: the elevation
\* move_to follows the azimuth move_to, and the joins follow both.
AfterStart(a, blocking) ==
  IF a = "az" THEN "goto_el"
  ELSE IF blocking THEN "join_az" ELSE "goto_end"

\* goto lines 404-405 and 411-412: move_to(.., blocking=False) on the
\* azimuth axis and then on the elevation axis; a blocking goto keeps the
\* two threads to join them.
GotoMove(c) ==
  /\ clients[c].pc \in {"goto_az", "goto_el"}
  /\ LET a == IF clients[c].pc = "goto_az" THEN "az" ELSE "el"
         t == IF a = "az" THEN clients[c].az ELSE clients[c].el
         joiner == IF clients[c].blocking THEN c ELSE NoClient
     IN
       /\ Free(a) # {}
       /\ StartMove(a, Lowest(Free(a)), t, FALSE, joiner)
       /\ clients' = [clients EXCEPT
            ![c].pc = AfterStart(a, clients[c].blocking),
            ![c].saz = IF a = "az" /\ clients[c].blocking THEN Lowest(Free(a)) ELSE @,
            ![c].sel = IF a = "el" /\ clients[c].blocking THEN Lowest(Free(a)) ELSE @]
  /\ UNCHANGED <<envVars, sessionVars, calls, motionVars, dir, homing, stopper, state, enabled, loops,
                 tracking_thread, tracking_stop, quiet>>

\* goto lines 406-409: az_thread.join() then el_thread.join()
GotoJoin(c) ==
  /\ clients[c].pc \in {"join_az", "join_el"}
  /\ LET a == IF clients[c].pc = "join_az" THEN "az" ELSE "el"
         s == IF a = "az" THEN clients[c].saz ELSE clients[c].sel
     IN
       /\ ~InFlight(a, s)
       /\ clients' = [clients EXCEPT
            ![c].pc = IF a = "az" THEN "join_el" ELSE "goto_end"]
  /\ UNCHANGED <<envVars, sessionVars, calls, motionVars, stop_event, dir, moves, homing, stopper,
                 state, enabled, loops, tracking_thread, tracking_stop, quiet>>

\* The threads a call held in az_thread and el_thread, let go on return.
Released(c) ==
  [a \in Axes |-> [s \in Slots |->
     IF moves[a][s].owner = c THEN [moves[a][s] EXCEPT !.owner = NoClient]
     ELSE moves[a][s]]]

\* goto lines 414-415: is_slewing cleared, positions refreshed; goto returns
\* (to park, when park called it)
GotoEnd(c) ==
  /\ clients[c].pc = "goto_end"
  /\ state' = Updated([state EXCEPT !.is_slewing = FALSE])
  /\ moves' = Released(c)
  /\ IF clients[c].op = "park"
       THEN clients' = [clients EXCEPT ![c].pc = "park_end", ![c].saz = NoMove,
                                       ![c].sel = NoMove]
       ELSE Return(c, TRUE)
  /\ UNCHANGED <<envVars, sessionVars, calls, motionVars, stop_event, dir, homing, stopper,
                 enabled, loops, tracking_thread, tracking_stop, quiet>>

\* park lines 424-425: disable_motors() (lines 365-367) and is_parked
ParkEnd(c) ==
  /\ clients[c].pc = "park_end"
  /\ enabled' = [a \in Axes |-> FALSE]
  /\ state' = [state EXCEPT !.motors_enabled = FALSE, !.is_parked = TRUE]
  /\ Return(c, TRUE)
  /\ UNCHANGED <<envVars, sessionVars, calls, motionVars, stop_event, dir, moves, homing, stopper,
                 loops, tracking_thread, tracking_stop, quiet>>

\* start_tracking lines 446-449: the flag is cleared and a new thread runs
\* _tracking_loop
StartTrackingSpawn(c) ==
  /\ clients[c].pc = "start_spawn"
  /\ \E k \in Loops :
       /\ ~Alive(k)
       /\ \A j \in Loops : ~Alive(j) => k <= j
       /\ loops' = [loops EXCEPT ![k] = [IdleLoop EXCEPT !.pc = "test"]]
       /\ tracking_thread' = k
  /\ tracking_stop' = FALSE
  /\ clients' = [clients EXCEPT ![c].pc = "start_flag"]
  /\ UNCHANGED <<envVars, sessionVars, calls, motionVars, stop_event, dir, moves, homing, stopper,
                 state, enabled, quiet>>

\* start_tracking line 450: is_tracking
StartTrackingFlag(c) ==
  /\ clients[c].pc = "start_flag"
  /\ state' = [state EXCEPT !.is_tracking = TRUE]
  /\ Return(c, TRUE)
  /\ UNCHANGED <<envVars, sessionVars, calls, motionVars, stop_event, dir, moves, homing, stopper,
                 enabled, loops, tracking_thread, tracking_stop, quiet>>

\* _tracking_loop lines 466 and 485: the loop test, after the wait
TrackTest(k) ==
  /\ loops[k].pc = "test"
  /\ tracking_stop
  /\ loops' = [loops EXCEPT ![k] = [IdleLoop EXCEPT !.pc = "dead"]]
  /\ UNCHANGED <<envVars, sessionVars, calls, motionVars, stop_event, dir, moves, homing, stopper,
                 state, enabled, clients, tracking_thread, tracking_stop, quiet>>

\* line 474: az_error > tolerance, the error being |target - steps / spd|
ErrorExceeds(c, target, steps, tolerance) ==
  Abs(target * StepsPerRevTotal(c) - steps * 360) > tolerance * StepsPerRevTotal(c)

\* A tick that corrects whatever the errors are.
NeedsMoveAlways(az, el) == TRUE

\* line 474: if az_error > tolerance or el_error > tolerance
NeedsMove(az, el) ==
  \/ ErrorExceeds(cfg["az"], az, position_steps["az"], TrackerCfg.position_tolerance)
  \/ ErrorExceeds(cfg["el"], el, position_steps["el"], TrackerCfg.position_tolerance)

\* _tracking_loop lines 466-479: the flag is clear, the callback returns
\* (az, el), and when either error exceeds the tolerance the targets are
\* stored and the azimuth move is requested.
TrackTick(k, az, el) ==
  /\ loops[k].pc = "test"
  /\ ~tracking_stop
  /\ IF NeedsMove(az, el)
       THEN /\ Free("az") # {}
            /\ loops[k].ticks < MaxTicks
            /\ state' = [state EXCEPT !.az_target = az, !.el_target = el]
            /\ StartMove("az", Lowest(Free("az")), az, FALSE, NoClient)
            /\ loops' = [loops EXCEPT ![k] =
                 [pc |-> "tick_el", el |-> el,
                  over |-> ErrorExceeds(cfg["el"], el, position_steps["el"],
                                        TrackerCfg.position_tolerance),
                  ticks |-> loops[k].ticks + 1]]
       ELSE UNCHANGED <<state, moves, stop_event, loops>>
  /\ UNCHANGED <<envVars, sessionVars, calls, motionVars, dir, homing, stopper, enabled, clients,
                 tracking_thread, tracking_stop, quiet>>

\* _tracking_loop line 480: the elevation move is requested
TrackTickEl(k) ==
  /\ loops[k].pc = "tick_el"
  /\ Free("el") # {}
  /\ StartMove("el", Lowest(Free("el")), loops[k].el, FALSE, NoClient)
  /\ loops' = [loops EXCEPT ![k] = [IdleLoop EXCEPT !.pc = "test", !.ticks = loops[k].ticks]]
  /\ UNCHANGED <<envVars, sessionVars, calls, motionVars, dir, homing, stopper, state, enabled, clients,
                 tracking_thread, tracking_stop, quiet>>

\* AntennaTracker.home lines 372-374: enable_motors() (lines 359-361) and
\* the start of self.el.home()
TrackerHomeCall(c) ==
  /\ Idle(c)
  /\ calls < MaxCalls
  /\ calls' = calls + 1
  /\ \A o \in Clients : clients[o].op # "home"
  /\ \A a \in Axes : ~HomeRunning(a) /\ homing[a].runs < MaxHomes
  /\ enabled' = [a \in Axes |-> TRUE]
  /\ state' = [state EXCEPT !.motors_enabled = TRUE]
  /\ BeginHome("el")
  /\ clients' = [clients EXCEPT ![c] = Called("home", "home_el")]
  /\ quiet' = "no"
  /\ UNCHANGED <<envVars, sessionVars, motionVars, stop_event, moves, stopper, loops,
                 tracking_thread, tracking_stop>>

\* home lines 374-378: el.home() has returned; False ends the call, True
\* starts self.az.home()
TrackerHomeEl(c) ==
  /\ clients[c].pc = "home_el"
  /\ homing["el"].pc = "returned"
  /\ IF homing["el"].result
       THEN /\ BeginHome("az")
            /\ clients' = [clients EXCEPT ![c].pc = "home_az"]
       ELSE /\ Return(c, FALSE)
            /\ UNCHANGED <<dir, homing>>
  /\ UNCHANGED <<envVars, sessionVars, calls, motionVars, stop_event, moves, stopper, state, enabled,
                 loops, tracking_thread, tracking_stop, quiet>>

\* home lines 378-385: az.home() has returned; False ends the call, True
\* sets is_homed and refreshes the positions
TrackerHomeAz(c) ==
  /\ clients[c].pc = "home_az"
  /\ homing["az"].pc = "returned"
  /\ IF homing["az"].result
       THEN /\ state' = Updated([state EXCEPT !.is_homed = TRUE])
            /\ Return(c, TRUE)
       ELSE /\ Return(c, FALSE)
            /\ UNCHANGED state
  /\ UNCHANGED <<envVars, sessionVars, calls, motionVars, stop_event, dir, moves, homing, stopper,
                 enabled, loops, tracking_thread, tracking_stop, quiet>>

\* A position read that first takes the axis lock.
ReadableUnlocked(a) == lock[a] = NoMove

\* position_degrees (line 157) reads position_steps as it is: no lock is
\* taken and nothing is waited for.
Readable(a) == TRUE

\* get_status / get_position (lines 492-512): _update_state() copies both
\* positions into the state record, which the result is then read from.
GetStatus(c) ==
  /\ Idle(c)
  /\ \A a \in Axes : Readable(a)
  /\ state' = Updated(state)
  /\ UNCHANGED <<envVars, sessionVars, axisVars, homing, stopper, enabled, clients, loops,
                 tracking_thread, tracking_stop, calls, quiet>>

\* --------------------------------------------------------- RotatorProtocol
\* Bytes and characters are one-character strings, lines sequences of them.
Whitespace == {" ", "\t", "\r"}
NonAscii == {"0x80"}          \* a byte decode("ascii", errors="ignore") drops
Digits == <<"0", "1", "2", "3", "4", "5", "6", "7", "8", "9">>
IsDigit(ch) == \E i \in 1..10 : Digits[i] = ch
DigitValue(ch) == (CHOOSE i \in 1..10 : Digits[i] = ch) - 1

RECURSIVE LStrip(_)
LStrip(s) == IF s # <<>> /\ Head(s) \in Whitespace THEN LStrip(Tail(s)) ELSE s

RECURSIVE RStrip(_)
RStrip(s) ==
  IF s # <<>> /\ s[Len(s)] \in Whitespace THEN RStrip(SubSeq(s, 1, Len(s) - 1)) ELSE s

\* bytes.strip() / str.strip()
Strip(s) == RStrip(LStrip(s))

\* bytes.decode("ascii", errors="ignore")
IsAscii(ch) == ch \notin NonAscii
Decode(s) == SelectSeq(s, IsAscii)

\* str.startswith and the `in` test on strings
StartsWith(s, prefix) == Len(s) >= Len(prefix) /\ SubSeq(s, 1, Len(prefix)) = prefix
Contains(s, sub) ==
  \E i \in 1..(Len(s) + 1) : i + Len(sub) - 1 <= Len(s) /\ SubSeq(s, i, i + Len(sub) - 1) = sub

\* str.split(): the maximal runs of non-whitespace characters
RECURSIVE Split(_)
Split(s) ==
  LET t == LStrip(s)
      n == IF \E i \in 1..Len(t) : t[i] \in Whitespace
             THEN (CHOOSE i \in 1..Len(t) :
                     t[i] \in Whitespace /\ \A j \in 1..(i - 1) : t[j] \notin Whitespace) - 1
             ELSE Len(t)
  IN IF t = <<>> THEN <<>>
     ELSE <<SubSeq(t, 1, n)>> \o Split(SubSeq(t, n + 1, Len(t)))

\* The value of a run of digits.
RECURSIVE Natural(_)
Natural(s) == IF s = <<>> THEN 0 ELSE Natural(SubSeq(s, 1, Len(s) - 1)) * 10 + DigitValue(s[Len(s)])

AllDigits(s) == \A i \in 1..Len(s) : IsDigit(s[i])

\* float(val) on the numerals the sessions here send: an optional sign,
\* digits, and an optional point followed by zeros; anything else made of
\* other characters raises ValueError.  ok is FALSE for the ValueError, deg
\* the value in degrees.
Float(val) ==
  LET body == IF val # <<>> /\ val[1] \in {"-", "+"} THEN Tail(val) ELSE val
      dot == IF \E i \in 1..Len(body) : body[i] = "."
               THEN CHOOSE i \in 1..Len(body) :
                      body[i] = "." /\ \A j \in 1..(i - 1) : body[j] # "."
               ELSE Len(body) + 1
      whole == SubSeq(body, 1, dot - 1)
      frac == SubSeq(body, dot + 1, Len(body))
      ok == /\ AllDigits(whole) /\ AllDigits(frac)
            /\ Len(whole) + Len(frac) > 0
            /\ \A i \in 1..Len(frac) : frac[i] = "0"
  IN [ok |-> ok,
      deg |-> IF ~ok THEN 0
              ELSE IF val[1] = "-" THEN 0 - Natural(whole) ELSE Natural(whole)]

\* The string literals _handle_command compares the command with.
Lit ==
  [AZ |-> <<"A", "Z">>,
   EL |-> <<"E", "L">>,
   AZ_EL |-> <<"A", "Z", " ", "E", "L">>,
   IP |-> <<"I", "P">>,
   SA |-> <<"S", "A">>,
   SE |-> <<"S", "E">>,
   SA_SE |-> <<"S", "A", " ", "S", "E">>,
   VE |-> <<"V", "E">>,
   p |-> <<"p">>,
   get_pos |-> <<"\\", "g", "e", "t", "_", "p", "o", "s">>,
   P_ |-> <<"P", " ">>,
   set_pos_ |-> <<"\\", "s", "e", "t", "_", "p", "o", "s", " ">>,
   S |-> <<"S">>,
   stop |-> <<"\\", "s", "t", "o", "p">>,
   underscore |-> <<"_">>,
   get_info |-> <<"\\", "g", "e", "t", "_", "i", "n", "f", "o">>,
   one |-> <<"1">>,
   dump_state |-> <<"\\", "d", "u", "m", "p", "_", "s", "t", "a", "t", "e">>,
   q |-> <<"q">>,
   quit |-> <<"\\", "q", "u", "i", "t">>]

\* ------------------------------------------------- RotatorProtocol replies
\* What is handed to transport.write, by content.  A position is written
\* with `places` decimals ({:.1f} or {:.6f}); az and el are the numbers
\* printed, as integers in units of 10^-places degrees.
RPRT(code) == [kind |-> "RPRT", code |-> code]
Text(what) == [kind |-> "text", what |-> what]

Pow10(k) == IF k = 1 THEN 10 ELSE 1000000

\* n / d rounded to the nearest integer, as the float formatting rounds
RoundDiv(n, d) ==
  IF n >= 0 THEN (2 * n + d) \div (2 * d) ELSE 0 - ((2 * (0 - n) + d) \div (2 * d))

Fixed(p, places) == RoundDiv(p.num * Pow10(places), p.den)

\* The reply that would report the position (az, el) in whole degrees.
WholeReply(form, az, el) ==
  [kind |-> form,
   az |-> az * Pow10(IF form = "AZEL" THEN 1 ELSE 6),
   el |-> el * Pow10(IF form = "AZEL" THEN 1 ELSE 6)]

\* A reply that reports the targets instead.
PositionReplyTarget(form, st) == WholeReply(form, st.az_target, st.el_target)

\* The reply to a position query, from the (az, el) get_position returned.
PositionReply(form, st) ==
  [kind |-> form,
   az |-> Fixed(st.az_position, IF form = "AZEL" THEN 1 ELSE 6),
   el |-> Fixed(st.el_position, IF form = "AZEL" THEN 1 ELSE 6)]

\* --------------------------------------------- RotatorProtocol dispatching

\* Lines 80-88: the loop over the parts of an EasyComm line.  acc holds az
\* and el (has_az, has_el: not None) and ok, FALSE once float() has raised
\* ValueError, which ends the loop.
RECURSIVE EasyParts(_, _)
EasyParts(parts, acc) ==
  IF parts = <<>> \/ ~acc.ok THEN acc
  ELSE LET part == Head(parts)
           val == SubSeq(part, 3, Len(part))
           f == Float(val)
       IN IF StartsWith(part, Lit.AZ)
            THEN IF val = <<>> THEN EasyParts(Tail(parts), acc)
                 ELSE EasyParts(Tail(parts),
                        [acc EXCEPT !.ok = f.ok, !.has_az = f.ok, !.az = f.deg])
          ELSE IF StartsWith(part, Lit.EL)
            THEN IF val = <<>> THEN EasyParts(Tail(parts), acc)
                 ELSE EasyParts(Tail(parts),
                        [acc EXCEPT !.ok = f.ok, !.has_el = f.ok, !.el = f.deg])
          ELSE EasyParts(Tail(parts), acc)

\* Lines 76-99
EasyComm(cmd) ==
  LET r == EasyParts(Split(cmd), [ok |-> TRUE, has_az |-> FALSE, az |-> 0,
                                  has_el |-> FALSE, el |-> 0])
  IN IF ~r.ok THEN Plain("malformed")
     ELSE IF r.has_az /\ r.has_el THEN Decision("set", r.az, r.el)
     ELSE Plain("AZEL")

\* The same with a second argument that is never refused.
SetPosLax(cmd) ==
  LET parts == Split(cmd) IN
    IF Len(parts) < 2 \/ ~Float(parts[2]).ok THEN Plain("malformed")
    ELSE IF Len(parts) < 3 THEN Plain("malformed")
    ELSE Decision("set", Float(parts[2]).deg, Float(parts[3]).deg)

\* Lines 121-129: float(parts[1]) and float(parts[2]), IndexError and
\* ValueError answered alike
SetPos(cmd) ==
  LET parts == Split(cmd) IN
    IF Len(parts) < 2 \/ ~Float(parts[2]).ok THEN Plain("malformed")
    ELSE IF Len(parts) < 3 \/ ~Float(parts[3]).ok THEN Plain("malformed")
    ELSE Decision("set", Float(parts[2]).deg, Float(parts[3]).deg)

\* _handle_command, lines 70-158, its tests in the order of the code
HandleCommand(line) ==
  LET cmd == Strip(line) IN
    IF StartsWith(cmd, Lit.AZ) /\ Contains(cmd, Lit.EL) THEN EasyComm(cmd)
    ELSE IF cmd \in {Lit.AZ, Lit.AZ_EL, Lit.IP} THEN Plain("AZEL")
    ELSE IF cmd \in {Lit.SA, Lit.SE, Lit.SA_SE} THEN Plain("stop")
    ELSE IF cmd = Lit.VE THEN Plain("version")
    ELSE IF cmd \in {Lit.p, Lit.get_pos} THEN Plain("pos")
    ELSE IF StartsWith(cmd, Lit.P_) \/ StartsWith(cmd, Lit.set_pos_) THEN SetPos(cmd)
    ELSE IF cmd \in {Lit.S, Lit.stop} THEN Plain("stop")
    ELSE IF cmd \in {Lit.underscore, Lit.get_info} THEN Plain("info")
    ELSE IF cmd \in {Lit.one, Lit.dump_state} THEN Plain("dump_state")
    ELSE IF cmd \in {Lit.q, Lit.quit} THEN Plain("quit")
    ELSE Plain("unknown")

\* An unknown command swallowed: _handle_command returning None for it.
UnknownReplyNone == NoResponse

\* Line 158
UnknownReply == RPRT(0 - 4)

\* data_received lines 62-64: the bytes before the first newline, stripped
\* and decoded, and the bytes after it
HasLine(buf) == \E i \in 1..Len(buf) : buf[i] = "\n"
NewlineAt(buf) == CHOOSE i \in 1..Len(buf) : buf[i] = "\n" /\ \A j \in 1..(i - 1) : buf[j] # "\n"
FirstLine(buf) == Decode(Strip(SubSeq(buf, 1, NewlineAt(buf) - 1)))
AfterLine(buf) == SubSeq(buf, NewlineAt(buf) + 1, Len(buf))

\* -------------------------------------------------------- one axis alone
\* Threads calling move_to (blocking or not) and stop on the azimuth axis,
\* MaxMoves calls of move_to in all.
AxisNext ==
  \/ \E t \in Targets, b \in BOOLEAN :
       Unused("az") # {} /\ move_to("az", Lowest(Unused("az")), t, b)
  \/ \E s \in Slots : MoveAcquire("az", s)
  \/ \E s \in Slots : MovePlan("az", s)
  \/ \E s \in Slots : MoveCheck("az", s)
  \/ \E s \in Slots : MovePulse("az", s)
  \/ \E s \in Slots : MoveCount("az", s)
  \/ StopCall("az")
  \/ StopReturn

Spec == Init /\ [][AxisNext]_vars

\* The same threads, on each of the three backends.
DirectionInit ==
  /\ cfg \in {c \in [Axes -> {CfgFine, CfgUnit}] : c["el"] = CfgUnit}
  /\ backend \in Backends
  /\ switch = [a \in Axes |-> "any"]
  /\ InitAxes
  /\ Started
  /\ NoSession

DirectionSpec == DirectionInit /\ [][AxisNext]_vars

\* Threads are scheduled fairly: every _execute_move run that can take a
\* step eventually does, and the stop() caller polls _moving again and again.
FairSpec ==
  /\ Init
  /\ [][AxisNext]_vars
  /\ \A s \in Slots :
       /\ WF_vars(MoveAcquire("az", s))
       /\ WF_vars(MovePlan("az", s))
       /\ WF_vars(MoveCheck("az", s))
       /\ WF_vars(MovePulse("az", s))
       /\ WF_vars(MoveCount("az", s))
  /\ WF_vars(StopReturn)

\* ---------------------------------------------------- one axis, with home
\* One caller on the azimuth axis: it first positions the axis with move_to
\* calls and then calls home(), each call made only once the axis is at rest,
\* on every backend and with a switch that may never close.  stop() may come
\* from another thread at any time.  The
\* axis has positive acceleration (home() reads neither speed nor
\* acceleration).
HomeInit ==
  /\ cfg \in {c \in [Axes -> {CfgFine, CfgUnit}] : c["el"] = CfgUnit}
  /\ backend \in Backends
  /\ switch \in {w \in [Axes -> {"never", "any"}] :
                  w["el"] = "any" /\ (backend = "sim" => w["az"] = "any")}
  /\ InitAxes
  /\ Started
  /\ NoSession

HomeNext ==
  \/ \E t \in Targets, b \in BOOLEAN :
       /\ AtRest("az")
       /\ homing["az"].runs = 0
       /\ Unused("az") # {}
       /\ move_to("az", Lowest(Unused("az")), t, b)
  \/ \E s \in Slots : MoveAcquire("az", s)
  \/ \E s \in Slots : MovePlan("az", s)
  \/ \E s \in Slots : MoveCheck("az", s)
  \/ \E s \in Slots : MovePulse("az", s)
  \/ \E s \in Slots : MoveCount("az", s)
  \/ AtRest("az") /\ HomeStart("az")
  \/ HomeCheck("az")
  \/ HomePulse("az")
  \/ HomeCount("az")
  \/ HomeBackoff("az")
  \/ HomeFound("az")
  \/ StopCall("az")
  \/ StopReturn

HomeSpec == HomeInit /\ [][HomeNext]_vars

\* The thread running home() is scheduled fairly.
HomeFairSpec ==
  /\ HomeInit
  /\ [][HomeNext]_vars
  /\ WF_vars(HomeCheck("az"))
  /\ WF_vars(HomePulse("az"))
  /\ WF_vars(HomeCount("az"))
  /\ WF_vars(HomeBackoff("az"))
  /\ WF_vars(HomeFound("az"))

\* ------------------------------------------------- status queries, one axis
\* The callers of one axis with home, and threads asking for the status at
\* any moment.
StatusNext ==
  \/ HomeNext
  \/ \E c \in Clients : GetStatus(c)

\* The backends differ in the pins they drive, which no status query reads.
StatusInit == HomeInit /\ backend = "pigpio"

StatusSpec == StatusInit /\ [][StatusNext]_vars

\* ------------------------------------------------- RotatorProtocol session
\* The lines a peer sends here, without their newline.
Sample ==
  [Set |-> <<"A", "Z", "1", " ", "E", "L", "0">>,
   Query |-> <<"A", "Z", " ", "E", "L">>,
   GetPos |-> <<"p">>,
   SetPos |-> <<"P", " ", "-", "1", " ", "1">>,
   BadSetPos |-> <<"P", " ", "1", " ", "x">>,
   ShortSetPos |-> <<"P", " ", "1">>,
   BadSet |-> <<"A", "Z", "x", " ", "E", "L", "1">>,
   Stop |-> <<"S">>,
   Quit |-> <<"q">>,
   Unknown |-> <<"z", "z">>,
   Info |-> <<"_">>,
   Dump |-> <<"1">>,
   Version |-> <<"V", "E">>,
   Blank |-> <<" ", "\r">>]
Lines == {Sample[n] : n \in DOMAIN Sample}

\* The byte streams of at most MaxLines lines, each ended by a newline.
RECURSIVE Joined(_)
Joined(ls) == IF ls = <<>> THEN <<>> ELSE Head(ls) \o <<"\n">> \o Joined(Tail(ls))
Streams == {Joined(ls) : ls \in UNION {[1..n -> Lines] : n \in 1..MaxLines}}

\* The thread running the event loop, as a caller of the tracker.
Server == "c1"

\* main() line 204: tracker.enable_motors() (lines 358-361), before the
\* server accepts anything
ServerStart ==
  /\ ~state.motors_enabled
  /\ enabled' = [a \in Axes |-> TRUE]
  /\ state' = [state EXCEPT !.motors_enabled = TRUE]
  /\ UNCHANGED <<envVars, sessionVars, axisVars, homing, stopper, clients, loops,
                 tracking_thread, tracking_stop, quiet, calls>>

\* data_received is between two lines, or has returned.
BetweenLines == Idle(Server) /\ pending = NoResponse

\* data_received is called with the next n bytes (line 60).  It is called
\* when the previous call has gone through every whole line of the buffer,
\* and never once the transport has been closed.
Receive(n) ==
  /\ state.motors_enabled
  /\ ~closed
  /\ BetweenLines
  /\ ~HasLine(buffer)
  /\ n \in 1..Len(wire)
  /\ buffer' = buffer \o SubSeq(wire, 1, n)
  /\ wire' = SubSeq(wire, n + 1, Len(wire))
  /\ UNCHANGED <<envVars, axisVars, homing, stopper, trackerVars, out, closed,
                 pending, log, last, stream>>

\* One turn of the loop of data_received (lines 62-68), which writes what
\* _handle_command returns unless that is None, up to the point where
\* _handle_command has its answer or is inside a call of the tracker:
\* goto(az, el, blocking=False) has run lines 396-398, stop() line 429,
\* get_position() all of lines 492-495.
HandleLine ==
  /\ BetweenLines
  /\ HasLine(buffer)
  /\ buffer' = AfterLine(buffer)
  /\ LET line == FirstLine(buffer)
         d == HandleCommand(line)
         write(r) == /\ out' = IF r = NoResponse THEN out ELSE Append(out, r)
                     /\ UNCHANGED <<closed, pending>>
         untouched == UNCHANGED <<state, clients, quiet, tracking_stop, log>>
     IN IF line = <<>>
          THEN UNCHANGED <<out, closed, pending, log, last, state, clients, quiet,
                           tracking_stop>>
          ELSE /\ last' = d
               /\ CASE d.kind = "set" ->
                         /\ BeginGoto(Server, "goto", d.az, d.el, FALSE)
                         /\ quiet' = "no"
                         /\ pending' = RPRT(0)
                         /\ log' = Append(log, [op |-> "goto", az |-> d.az, el |-> d.el])
                         /\ UNCHANGED <<out, closed, tracking_stop>>
                    [] d.kind \in {"AZEL", "pos"} ->
                         /\ state' = Updated(state)
                         /\ write(PositionReply(d.kind, Updated(state)))
                         /\ log' = Append(log, [op |-> "get_position", az |-> 0, el |-> 0])
                         /\ UNCHANGED <<clients, quiet, tracking_stop>>
                    [] d.kind = "stop" ->
                         /\ BeginStopTracking(Server, "stop")
                         /\ pending' = RPRT(0)
                         /\ log' = Append(log, [op |-> "stop", az |-> 0, el |-> 0])
                         /\ UNCHANGED <<out, closed, state>>
                    [] d.kind = "quit" ->
                         /\ closed' = TRUE
                         /\ untouched
                         /\ UNCHANGED <<out, pending>>
                    [] d.kind = "malformed" -> write(RPRT(0 - 1)) /\ untouched
                    [] d.kind = "unknown" -> write(UnknownReply) /\ untouched
                    [] OTHER -> write(Text(d.kind)) /\ untouched
  /\ UNCHANGED <<envVars, axisVars, homing, stopper, enabled, loops, tracking_thread,
                 calls, wire, stream>>

\* The tracker call has returned: _handle_command returns its answer and
\* line 68 writes it.
Respond ==
  /\ Idle(Server)
  /\ pending # NoResponse
  /\ out' = Append(out, pending)
  /\ pending' = NoResponse
  /\ UNCHANGED <<envVars, axisVars, homing, stopper, trackerVars, wire, buffer,
                 closed, log, last, stream>>

SessionInit ==
  /\ cfg = [a \in Axes |-> IF a = "az" THEN CfgFine ELSE CfgUnit]
  /\ backend = "pigpio"
  /\ switch = [a \in Axes |-> "any"]
  /\ InitAxes
  /\ Started
  /\ \E w \in Streams : Connected(w)

SessionNext ==
  \/ ServerStart
  \/ \E n \in 1..Len(wire) : Receive(n)
  \/ HandleLine
  \/ Respond
  \/ GotoMove(Server)
  \/ GotoEnd(Server)
  \/ TrackerStopSet(Server)
  \/ TrackerStopWait(Server)
  \/ \E a \in Axes, s \in Slots : MoveAcquire(a, s)
  \/ \E a \in Axes, s \in Slots : MovePlan(a, s)
  \/ \E a \in Axes, s \in Slots : MoveCheck(a, s)
  \/ \E a \in Axes, s \in Slots : MovePulse(a, s)
  \/ \E a \in Axes, s \in Slots : MoveCount(a, s)

SessionSpec == SessionInit /\ [][SessionNext]_vars

\* The same server, with a peer that sends only set-position lines, good
\* and bad, lines outside the command set, queries and stops.
ArgumentLines == {Sample.Set, Sample.Query, Sample.BadSet, Sample.BadSetPos, Sample.ShortSetPos, Sample.Unknown,
                  Sample.Info, Sample.GetPos, Sample.Stop}
ArgumentStreams ==
  {Joined(ls) : ls \in UNION {[1..n -> ArgumentLines] : n \in 1..MaxLines}}

ProtocolInit ==
  /\ cfg = [a \in Axes |-> IF a = "az" THEN CfgFine ELSE CfgUnit]
  /\ backend = "pigpio"
  /\ switch = [a \in Axes |-> "any"]
  /\ InitAxes
  /\ Started
  /\ \E w \in ArgumentStreams : Connected(w)

ProtocolSpec == ProtocolInit /\ [][SessionNext]_vars

\* ---------------------------------------------------------------- start-up
Hosts ==
  [pigpio : BOOLEAN, gpio : BOOLEAN, daemon : {"connected", "refused", "raises"}]

\* Lines 21-32, run when the module is imported: RPi.GPIO is tried, and
\* HAS_GPIO assigned, only in the handler of pigpio's ImportError.
Probe ==
  /\ boot = "import"
  /\ HAS_PIGPIO' = IF lib.pigpio THEN "True" ELSE "False"
  /\ HAS_GPIO' = IF lib.pigpio THEN HAS_GPIO
                 ELSE IF lib.gpio THEN "True" ELSE "False"
  /\ boot' = "init"
  /\ UNCHANGED <<shutdownVars, cfg, backend, switch, lib, pi, axisVars, homing, stopper,
                 trackerVars, sessionVars>>

\* __init__ lines 319-328: pigpio.pi() and its connected attribute; a daemon
\* that is not connected, or a pi() that raises, leaves self.pi None.
PigpioInit ==
  /\ boot = "init"
  /\ pi' = (HAS_PIGPIO = "True" /\ lib.daemon = "connected")
  /\ boot' = "test"
  /\ UNCHANGED <<shutdownVars, cfg, backend, switch, lib, HAS_PIGPIO, HAS_GPIO, axisVars, homing,
                 stopper, trackerVars, sessionVars>>

\* Reading a module name that was never assigned raises NameError.
Raises(flag) == flag = "unset"

\* __init__ lines 330-331: `if not self.pi and not HAS_GPIO`, the second
\* operand evaluated only when self.pi is None.
SimulationTest ==
  /\ boot = "test"
  /\ boot' = IF ~pi /\ Raises(HAS_GPIO) THEN "error" ELSE "az"
  /\ UNCHANGED <<shutdownVars, cfg, backend, switch, lib, HAS_PIGPIO, HAS_GPIO, pi, axisVars,
                 homing, stopper, trackerVars, sessionVars>>

\* The backend an axis built with these flags drives its pins with
\* (_setup_pins, lines 100-115, and every pin access after it).
Selected ==
  IF pi THEN "pigpio" ELSE IF HAS_GPIO = "True" THEN "gpio" ELSE "sim"

\* StepperAxis.__init__ lines 95-98: the log line formats
\* config.resolution_arcsec, which divides by steps_per_degree (lines 60-65).
LogRaises(c) == StepsPerRevTotal(c) = 0

\* __init__ lines 337-338: StepperAxis(name, cfg, self.pi), whose __init__
\* (lines 85-98) runs _setup_pins: `if self.pi ... elif HAS_GPIO`, the pins
\* set up and the enable pin written high, and then writes its log line.
\* The configurations come from _parse_axis_config (lines 340-356), which
\* copies the fields into an AxisConfig and tests none of them.
AxisSetup(a) ==
  /\ boot = a
  /\ boot' = IF (~pi /\ Raises(HAS_GPIO)) \/ LogRaises(cfg[a]) THEN "error"
             ELSE IF a = "az" THEN "el" ELSE "done"
  /\ backend' = IF ~pi /\ Raises(HAS_GPIO) THEN backend ELSE Selected
  /\ enabled' = [enabled EXCEPT ![a] = FALSE]
  /\ UNCHANGED <<shutdownVars, cfg, switch, lib, HAS_PIGPIO, HAS_GPIO, pi, axisVars, homing,
                 stopper, state, clients, loops, tracking_thread, tracking_stop,
                 quiet, calls, sessionVars>>

StartupInit ==
  /\ cfg \in [Axes -> Configs]
  /\ backend = "none"
  /\ switch = [a \in Axes |-> "any"]
  /\ lib \in Hosts
  /\ HAS_PIGPIO = "unset"
  /\ HAS_GPIO = "unset"
  /\ pi = FALSE
  /\ boot = "import"
  /\ InitAxes
  /\ NoSession

StartupNext ==
  \/ Probe
  \/ PigpioInit
  \/ SimulationTest
  \/ \E a \in Axes : AxisSetup(a)

StartupSpec == StartupInit /\ [][StartupNext]_vars

\* Axis configurations a config.yaml can hold and that make no sense: one of
\* the three factors of steps_per_degree is 0, or min_angle is above
\* max_angle.
BadConfigs ==
  {[CfgUnit EXCEPT !.gear_ratio = 0], [CfgUnit EXCEPT !.steps_per_rev = 0],
   [CfgUnit EXCEPT !.microstepping = 0],
   [CfgUnit EXCEPT !.min_angle = 2, !.max_angle = 0 - 1]}

\* Start-up with any of the configurations, sound or not, for either axis.
ConfigInit ==
  /\ cfg \in [Axes -> Configs \cup BadConfigs]
  /\ backend = "none"
  /\ switch = [a \in Axes |-> "any"]
  /\ lib \in Hosts
  /\ HAS_PIGPIO = "unset"
  /\ HAS_GPIO = "unset"
  /\ pi = FALSE
  /\ boot = "import"
  /\ InitAxes
  /\ NoSession

ConfigSpec == ConfigInit /\ [][StartupNext]_vars

\* ---------------------------------------------------------------- shutdown
\* rotator_server.main from line 203 on: main is in asyncio.run ("serve"), in
\* the signal handler ("handler"), in the finally clause ("finally") or has
\* left ("exited"); step is the statement of AntennaTracker.cleanup it is at.
At(where, step) == [in |-> where, step |-> step]

\* shutdown(sig, frame), lines 195-197: SIGINT or SIGTERM is delivered to the
\* main thread while the event loop waits, and the handler calls cleanup.
Signal ==
  /\ main = At("serve", "none")
  /\ Idle(Server)
  /\ main' = At("handler", "stop")
  /\ UNCHANGED <<cfg, backend, switch, startupVars, released, sessionVars,
                 axisVars, homing, stopper, trackerVars>>

\* asyncio.run returns or raises: the finally clause, lines 206-207.
ServeEnds ==
  /\ main = At("serve", "none")
  /\ Idle(Server)
  /\ main' = At("finally", "stop")
  /\ UNCHANGED <<cfg, backend, switch, startupVars, released, sessionVars,
                 axisVars, homing, stopper, trackerVars>>

\* cleanup line 516: self.stop()
CleanupStop ==
  /\ main.step = "stop"
  /\ Idle(Server)
  /\ BeginStopTracking(Server, "stop")
  /\ main' = [main EXCEPT !.step = "disable"]
  /\ UNCHANGED <<cfg, backend, switch, startupVars, released, sessionVars,
                 calls, motionVars, stop_event, dir, moves, homing, stopper,
                 state, enabled, loops, tracking_thread>>

\* cleanup line 517, once stop() has returned: disable_motors, lines 364-367
CleanupDisable ==
  /\ main.step = "disable"
  /\ Idle(Server)
  /\ enabled' = [a \in Axes |-> FALSE]
  /\ state' = [state EXCEPT !.motors_enabled = FALSE]
  /\ main' = [main EXCEPT !.step = "release"]
  /\ UNCHANGED <<cfg, backend, switch, startupVars, released, sessionVars,
                 axisVars, homing, stopper, clients, loops, tracking_thread,
                 tracking_stop, quiet, calls>>

\* cleanup lines 518-521: pi.stop() or GPIO.cleanup() releases the backend, and
\* cleanup returns: the handler raises SystemExit (line 198), which leaves the
\* try block through the finally clause; the finally clause leaves main.
CleanupRelease ==
  /\ main.step = "release"
  /\ ~Raises(IF pi THEN "True" ELSE HAS_GPIO)
  /\ released' = IF pi \/ HAS_GPIO = "True" THEN released + 1 ELSE released
  /\ main' = IF main.in = "handler" THEN At("finally", "stop")
                                    ELSE At("exited", "none")
  /\ UNCHANGED <<cfg, backend, switch, startupVars, sessionVars, axisVars,
                 homing, stopper, trackerVars>>

\* A server that has slewed the antenna for its clients and is shut down,
\* on each backend.
ShutdownInit ==
  /\ cfg = [a \in Axes |-> CfgUnit]
  /\ backend \in {"pigpio", "gpio", "sim"}
  /\ switch = [a \in Axes |-> "any"]
  /\ InitAxes
  /\ Started
  /\ NoSession

\* Threads run until main has left: the move threads are daemon threads.
ShutdownNext ==
  \/ main.in = "serve" /\ ServerStart
  \/ \E t \in Feed : main.in = "serve" /\ state.motors_enabled
                     /\ GotoCall(Server, t[1], t[2], FALSE)
  \/ GotoMove(Server)
  \/ GotoEnd(Server)
  \/ Signal
  \/ ServeEnds
  \/ CleanupStop
  \/ CleanupDisable
  \/ CleanupRelease
  \/ TrackerStopSet(Server)
  \/ TrackerStopWait(Server)
  \/ main.in # "exited" /\ \E a \in Axes, s \in Slots : MoveAcquire(a, s)
  \/ main.in # "exited" /\ \E a \in Axes, s \in Slots : MovePlan(a, s)
  \/ main.in # "exited" /\ \E a \in Axes, s \in Slots : MoveCheck(a, s)
  \/ main.in # "exited" /\ \E a \in Axes, s \in Slots : MovePulse(a, s)
  \/ main.in # "exited" /\ \E a \in Axes, s \in Slots : MoveCount(a, s)

ShutdownSpec == ShutdownInit /\ [][ShutdownNext]_vars

\* ------------------------------------------------------------ goto alone
\* One thread calls goto(az, el), blocking as by default, time after time on
\* two 1 step/deg axes.
GotoInit ==
  /\ cfg = [a \in Axes |-> CfgUnit]
  /\ backend = "pigpio"
  /\ switch = [a \in Axes |-> "any"]
  /\ InitAxes
  /\ Started
  /\ NoSession

GotoNext ==
  \/ \E t \in Feed : GotoCall(Server, t[1], t[2], TRUE)
  \/ GotoMove(Server)
  \/ GotoJoin(Server)
  \/ GotoEnd(Server)
  \/ \E a \in Axes, s \in Slots : MoveAcquire(a, s)
  \/ \E a \in Axes, s \in Slots : MovePlan(a, s)
  \/ \E a \in Axes, s \in Slots : MoveCheck(a, s)
  \/ \E a \in Axes, s \in Slots : MovePulse(a, s)
  \/ \E a \in Axes, s \in Slots : MoveCount(a, s)

GotoSpec == GotoInit /\ [][GotoNext]_vars

\* The same caller making blocking and non-blocking goto calls, as the
\* rotator server does with blocking=False: every move of these behaviours
\* was launched by a goto.
SlewNext ==
  \/ \E t \in Feed, b \in BOOLEAN : GotoCall(Server, t[1], t[2], b)
  \/ GotoMove(Server)
  \/ GotoJoin(Server)
  \/ GotoEnd(Server)
  \/ \E a \in Axes, s \in Slots : MoveAcquire(a, s)
  \/ \E a \in Axes, s \in Slots : MovePlan(a, s)
  \/ \E a \in Axes, s \in Slots : MoveCheck(a, s)
  \/ \E a \in Axes, s \in Slots : MovePulse(a, s)
  \/ \E a \in Axes, s \in Slots : MoveCount(a, s)

SlewSpec == GotoInit /\ [][SlewNext]_vars

\* --------------------------------------------------------- tracking alone
\* One thread starts and stops tracking on two 1 step/deg axes; the target
\* feed returns the positions of Feed, the tracking interval is long enough
\* for the moves of a tick to end before the next tick, and a tick takes less
\* than the five seconds of stop_tracking's join, so the join comes back
\* when the loop has ended.
TrackInit ==
  /\ cfg = [a \in Axes |-> CfgUnit]
  /\ backend = "pigpio"
  /\ switch = [a \in Axes |-> "any"]
  /\ InitAxes
  /\ Started
  /\ NoSession

TrackNext ==
  \/ StartTrackingCall(Server)
  \/ StartTrackingSpawn(Server)
  \/ StartTrackingFlag(Server)
  \/ StopTrackingCall(Server)
  \/ ~ThreadAlive /\ StopTrackingJoin(Server)
  \/ \E k \in Loops : TrackTest(k)
  \/ \E k \in Loops, t \in Feed :
       (\A a \in Axes : AtRest(a)) /\ TrackTick(k, t[1], t[2])
  \/ \E k \in Loops : TrackTickEl(k)
  \/ \E a \in Axes, s \in Slots : MoveAcquire(a, s)
  \/ \E a \in Axes, s \in Slots : MovePlan(a, s)
  \/ \E a \in Axes, s \in Slots : MoveCheck(a, s)
  \/ \E a \in Axes, s \in Slots : MovePulse(a, s)
  \/ \E a \in Axes, s \in Slots : MoveCount(a, s)

TrackSpec == TrackInit /\ [][TrackNext]_vars

\* The same thread and feed with ticks of any length: the join of
\* stop_tracking may also come back after its five seconds, the loop still
\* running.
RestartNext ==
  \/ TrackNext
  \/ StopTrackingJoin(Server)

RestartSpec == TrackInit /\ [][RestartNext]_vars

\* ------------------------------------------------------ the whole tracker
\* Client threads (protocol sessions, the web interface) call into one
\* AntennaTracker on hardware whose home switches may or may not close: an
\* operator calling any method, one after the other, and a second thread
\* that may call stop() at any moment.  One home() call runs at a time.
TrackerInit ==
  /\ cfg = [a \in Axes |-> IF a = "az" THEN CfgFine ELSE CfgUnit]
  /\ backend = "pigpio"
  /\ switch = [a \in Axes |-> "any"]
  /\ InitAxes
  /\ Started
  /\ NoSession

TrackerNext ==
  \/ \E c \in Operators, t \in Feed, b \in BOOLEAN : GotoCall(c, t[1], t[2], b)
  \/ \E c \in Clients : GotoMove(c)
  \/ \E c \in Clients : GotoJoin(c)
  \/ \E c \in Clients : GotoEnd(c)
  \/ \E c \in Operators : ParkCall(c)
  \/ \E c \in Clients : ParkGoto(c)
  \/ \E c \in Clients : ParkEnd(c)
  \/ \E c \in Clients : TrackerStopCall(c)
  \/ \E c \in Clients : TrackerStopSet(c)
  \/ \E c \in Clients : TrackerStopWait(c)
  \/ \E c \in Operators : StartTrackingCall(c)
  \/ \E c \in Clients : StartTrackingSpawn(c)
  \/ \E c \in Clients : StartTrackingFlag(c)
  \/ \E c \in Operators : StopTrackingCall(c)
  \/ \E c \in Clients : StopTrackingJoin(c)
  \/ \E c \in Operators : TrackerHomeCall(c)
  \/ \E c \in Clients : TrackerHomeEl(c)
  \/ \E c \in Clients : TrackerHomeAz(c)
  \/ \E k \in Loops : TrackTest(k)
  \/ \E k \in Loops, t \in Feed : TrackTick(k, t[1], t[2])
  \/ \E k \in Loops : TrackTickEl(k)
  \/ \E a \in Axes, s \in Slots : MoveAcquire(a, s)
  \/ \E a \in Axes, s \in Slots : MovePlan(a, s)
  \/ \E a \in Axes, s \in Slots : MoveCheck(a, s)
  \/ \E a \in Axes, s \in Slots : MovePulse(a, s)
  \/ \E a \in Axes, s \in Slots : MoveCount(a, s)
  \/ \E a \in Axes : HomeCheck(a)
  \/ \E a \in Axes : HomePulse(a)
  \/ \E a \in Axes : HomeCount(a)
  \/ \E a \in Axes : HomeBackoff(a)
  \/ \E a \in Axes : HomeFound(a)

TrackerSpec == TrackerInit /\ [][TrackerNext]_vars

\* ---------------------------------------------------------------- claims
MinSteps(a) == ToSteps(cfg[a], cfg[a].min_angle)
MaxSteps(a) == ToSteps(cfg[a], cfg[a].max_angle)

\* The step of the pulse a move has emitted and not yet added to
\* position_steps (0 when no move on the axis is between the two).
Counting(a) == {s \in Slots : moves[a][s].pc = "count"}
Uncounted(a) ==
  IF Counting(a) = {} THEN 0 ELSE moves[a][CHOOSE s \in Counting(a) : TRUE].sign

\* C1: once StepperAxis.stop() has returned, no move that was requested
\* before that stop() was called emits a step pulse.
C1_NoPulseAfterStop ==
  [][\A a \in Axes, s \in Slots :
       moves[a][s].covered =>
         ~(moves[a][s].pc = "pulse" /\ moves'[a][s].pc = "count")]_vars

\* C2: position_steps is the starting value (0) plus the forward pulses minus
\* the backward pulses emitted by moves, each pulse counted exactly once: the
\* two differ only by the one pulse a move has emitted and is about to count,
\* and agree whenever no move is between a pulse and its count, in particular
\* after a cancelled move.
C2_PositionCountsPulses ==
  \A a \in Axes :
    /\ position_steps[a] + Uncounted(a) = net_pulses[a]
    /\ Cardinality(Counting(a)) <= 1

\* A move was cancelled part of the way: the axis rests between two
\* reachable targets (the 2.5 step/deg axis has targets at -2, 0 and 2 steps).
C2_Witness ==
  \E s \in Slots :
    /\ cfg["az"] = CfgFine
    /\ moves["az"][s].pc = "cancelled"
    /\ lock["az"] = NoMove
    /\ position_steps["az"] \in {0 - 1, 1}
    /\ position_steps["az"] = net_pulses["az"]

\* C4: a stop() that is waiting on the moving flag eventually returns.
C4_StopReturns == (stopper.pc = "wait") ~> (stopper.pc = "idle")

\* C5: position_steps stays within int(min_angle*steps_per_degree) and
\* int(max_angle*steps_per_degree); every target a move works on has been
\* clamped into [min_angle, max_angle]; and an out-of-range request is not
\* rejected: once it has completed the axis rests at the clamped target.
C5_WithinLimits ==
  \A a \in Axes :
    /\ MinSteps(a) <= position_steps[a]
    /\ position_steps[a] <= MaxSteps(a)
    /\ \A s \in Slots :
         InFlight(a, s) =>
           /\ cfg[a].min_angle <= moves[a][s].target
           /\ moves[a][s].target <= cfg[a].max_angle
    /\ (lastDone[a] # NoTarget /\ lock[a] = NoMove) =>
         position_steps[a] =
           ToSteps(cfg[a], Max(cfg[a].min_angle, Min(cfg[a].max_angle, lastDone[a])))

\* A request beyond max_angle has completed and left the axis at the limit.
C5_Witness ==
  /\ lastDone["az"] # NoTarget
  /\ lastDone["az"] > cfg["az"].max_angle
  /\ lock["az"] = NoMove
  /\ position_steps["az"] = MaxSteps("az")

\* C6: a move_to(target) that follows a move_to(target) which ran to
\* completion returns from the zero-delta branch: it never enters the pulse
\* loop, and its planning step emits no pulse, writes no direction and leaves
\* position_steps unchanged.
C6_Idempotent ==
  /\ [](\A a \in Axes, s \in Slots :
          moves[a][s].repeat => moves[a][s].pc \in {"plan", "done"})
  /\ [][\A a \in Axes, s \in Slots :
          (moves[a][s].repeat /\ moves[a][s].pc = "plan" /\ moves'[a][s].pc # "plan") =>
            /\ moves'[a][s].pc = "done"
            /\ dir' = dir
            /\ position_steps' = position_steps
            /\ net_pulses' = net_pulses]_vars

\* A second move_to to the same target has returned, the first having moved
\* the axis away from 0.
C6_Witness ==
  \E s \in Slots :
    /\ moves["az"][s].repeat
    /\ moves["az"][s].pc = "done"
    /\ position_steps["az"] # 0

\* Search pulses a run of home() has emitted.
SearchPulses(a) == homing[a].i + (IF homing[a].pc = "hcount" THEN 1 ELSE 0)

\* C7: home() emits at most int(max_angle*steps_per_degree*1.1) search
\* pulses, every run of home() returns, and with a switch that never closes
\* it returns False.
C7_HomeTerminates ==
  /\ [](\A a \in Axes :
          /\ SearchPulses(a) <= MaxHomeSteps(cfg[a])
          /\ (homing[a].pc = "returned" /\ switch[a] = "never" /\ backend # "sim")
               => ~homing[a].result)
  /\ \A a \in Axes : HomeRunning(a) ~> (homing[a].pc = "returned")

\* home() has spent its whole budget on a switch that never closed and has
\* returned False.
C7_Witness ==
  /\ switch["az"] = "never"
  /\ backend # "sim"
  /\ homing["az"].pc = "returned"
  /\ ~homing["az"].result
  /\ ~homing["az"].cancelled
  /\ homing["az"].i = MaxHomeSteps(cfg["az"])
  /\ homing["az"].i >= 2

\* C8: on the step by which home() returns True, position_steps is
\* int(home_offset*steps_per_degree).
C8_HomePosition ==
  [][\A a \in Axes :
       (homing[a].pc # "returned" /\ homing'[a].pc = "returned" /\ homing'[a].result)
         => position_steps'[a] = ToSteps(cfg[a], cfg[a].home_offset)]_vars

\* home() has returned True after search steps, from a position other than
\* the home offset, and the axis is at the home offset.
C8_Witness ==
  /\ homing["az"].pc = "returned"
  /\ homing["az"].result
  /\ homing["az"].i >= 1
  /\ ToSteps(cfg["az"], cfg["az"].home_offset) # 0
  /\ position_steps["az"] = ToSteps(cfg["az"], cfg["az"].home_offset)

\* C3: once AntennaTracker.stop() has returned, and until a new operation is
\* requested, neither axis emits a step pulse (from a goto move, a tracking
\* correction or a homing search) and is_slewing is false.
C3_StopQuiets ==
  /\ [][quiet = "yes" => net_pulses' = net_pulses]_vars
  /\ [](quiet = "yes" => ~state.is_slewing)

\* The step on which the home() call of c returns False.
HomeReturnsFalse(c) ==
  /\ clients[c].op = "home"
  /\ clients'[c].pc = "idle"
  /\ ~clients'[c].ret

\* C9: when AntennaTracker.home() returns False, is_homed is false, also
\* after an earlier home() that succeeded; and when the elevation axis fails
\* to home, home() is not called on the azimuth axis.
C9_FailedHomeClearsHomed ==
  [][\A c \in Clients :
       HomeReturnsFalse(c) =>
         /\ ~state'.is_homed
         /\ clients[c].pc = "home_el" => homing'["az"] = homing["az"]]_vars

\* C10: park() returns with is_parked set, and a goto called after a park
\* returns with is_parked cleared.
C10_GotoClearsParked ==
  [][\A c \in Clients :
       /\ clients[c].pc = "park_end" /\ clients'[c].pc = "idle" => state'.is_parked
       /\ (clients[c].pc = "goto_end" /\ clients[c].after_park
             /\ clients'[c].pc = "idle") => ~state'.is_parked]_vars

\* A blocking goto of c (called directly or by park) is between its first
\* statement and its return.
InBlockingGoto(c) ==
  /\ clients[c].blocking
  /\ clients[c].pc \in {"goto_az", "goto_el", "join_az", "join_el", "goto_end"}

\* The blocking goto of c has a move still to launch or a launched move
\* that has not left its pulse loop.
GotoMovesPending(c) ==
  /\ InBlockingGoto(c)
  /\ \/ clients[c].pc \in {"goto_az", "goto_el"}
     \/ InFlight("az", clients[c].saz)
     \/ InFlight("el", clients[c].sel)

\* C11: a blocking goto returns only after both moves it launched have left
\* their pulse loops; is_slewing is true from the start of the call until
\* then, and false when goto returns.
C11_BlockingGoto ==
  /\ [](\A c \in Clients : GotoMovesPending(c) => state.is_slewing)
  /\ [][\A c \in Clients :
          (InBlockingGoto(c) /\ ~InBlockingGoto(c)') =>
             /\ ~GotoMovesPending(c)
             /\ ~state'.is_slewing]_vars

\* config["tracker"]["park_azimuth"] / ["park_elevation"]
ParkAngle(a) == IF a = "az" THEN TrackerCfg.park_azimuth ELSE TrackerCfg.park_elevation

\* The step on which the park() call of c returns.
ParkReturns(c) == clients[c].pc = "park_end" /\ clients'[c].pc = "idle"

\* C12: park() stops tracking, then slews, and only then disables the
\* motors; when it returns (no stop() having overlapped it) is_parked is
\* true, motors_enabled is false, neither axis is moving and both axes are
\* at the clamped park position, tracking-loop moves queued or not.
C12_ParkEndsParked ==
  [][\A c \in Clients :
       (ParkReturns(c) /\ ~clients[c].disturbed) =>
          /\ state'.is_parked
          /\ ~state'.motors_enabled
          /\ \A a \in Axes :
               /\ ~moving'[a]
               /\ position_steps'[a] = ToSteps(cfg[a], Clamp(cfg[a], ParkAngle(a)))]_vars

\* The step on which a stop_tracking() call of c, made on its own, returns:
\* after the join, or at once when no tracking thread is alive.
StopTrackingReturns(c) ==
  \/ clients[c].op = "stop_tracking" /\ clients'[c].pc = "idle"
  \/ /\ Idle(c) /\ clients'[c].pc = "idle"
     /\ calls' = calls + 1
     /\ \A o \in Clients \ {c} : clients'[o] = clients[o]

\* The step on which the start_tracking() call of c returns.
StartTrackingReturns(c) == clients[c].pc = "start_flag" /\ clients'[c].pc = "idle"

\* The tracking loop k can still issue a move_to: it is in the middle of a
\* tick, or at its loop test with the stop flag clear.
MayStillMove(k) ==
  \/ loops[k].pc = "tick_el"
  \/ loops[k].pc = "test" /\ ~tracking_stop

\* C13: when stop_tracking() returns, is_tracking is false and the tracking
\* loop issues no further move_to, also when the join timed out or the
\* thread had already ended; when start_tracking() returns, is_tracking is
\* true.
C13_TrackingToggles ==
  [][\A c \in Clients :
       /\ StopTrackingReturns(c) =>
            /\ ~state'.is_tracking
            /\ \A k \in Loops : ~MayStillMove(k)'
       /\ StartTrackingReturns(c) => state'.is_tracking]_vars

\* C14: get_status() and get_position() can complete in every reachable
\* state, whatever move, homing or stop is in flight: they take no axis lock
\* and wait for nothing, and they change no axis state.
C14_StatusNeverBlocks ==
  /\ [](\A c \in Clients : ENABLED GetStatus(c))
  /\ [][(\E c \in Clients : GetStatus(c)) =>
          UNCHANGED <<position_steps, stop_event, moving, lock>>]_vars

\* A status read that completed while a move held the lock in its pulse
\* loop with stop() waiting for it: the snapshot shows the position in
\* mid-move.
C14_Witness ==
  /\ lock["az"] # NoMove
  /\ moving["az"]
  /\ stopper.pc = "wait"
  /\ position_steps["az"] # 0
  /\ \E s \in Slots : moves["az"][s].pc = "pulse"
  /\ state.az_position = PositionDegrees(cfg["az"], position_steps["az"])


\* The step on which the session answers a position query.
QueryAnswered ==
  /\ Len(log') = Len(log) + 1
  /\ log'[Len(log')].op = "get_position"

\* The number a reply prints is the nearest one, in its last decimal, to the
\* position steps / steps_per_degree.
Reports(printed, places, c, steps) ==
  2 * Abs(printed * StepsPerRevTotal(c) - steps * 360 * Pow10(places)) <= StepsPerRevTotal(c)

\* The moves of the last set-position command have both run to completion.
SetCompleted == last.kind = "set" /\ lastDone["az"] = last.az /\ lastDone["el"] = last.el

\* C15, as first stated: within one session a position query processed right
\* after a set-position command that was answered RPRT 0 reports the
\* commanded position, in the format of the query.
C15_QueryReportsCommanded ==
  [][(/\ last.kind = "set"
      /\ out # <<>> /\ out[Len(out)] = RPRT(0)
      /\ last'.kind \in {"AZEL", "pos"}) =>
        out'[Len(out')] = WholeReply(last'.kind, last.az, last.el)]_vars

\* C15: a position query is answered with one reply that reports the
\* position the axes have when it is processed; after a set-position command
\* that is the commanded position, clamped to the limits and cut to whole
\* steps, once both of its moves have run to completion.
C15_QueryReportsPosition ==
  [][QueryAnswered =>
       LET reply == out'[Len(out')]
           places == IF reply.kind = "AZEL" THEN 1 ELSE 6
       IN /\ Len(out') = Len(out) + 1
          /\ reply.kind = last'.kind
          /\ Reports(reply.az, places, cfg["az"], position_steps["az"])
          /\ Reports(reply.el, places, cfg["el"], position_steps["el"])
          /\ SetCompleted =>
               /\ position_steps["az"] = ToSteps(cfg["az"], Clamp(cfg["az"], last.az))
               /\ position_steps["el"] = ToSteps(cfg["el"], Clamp(cfg["el"], last.el))]_vars

\* A query answered right after a set-position command whose moves are
\* under way: the reply is not the commanded position.
C15_Witness ==
  /\ Len(out) = 2 /\ Len(log) = 2
  /\ out[1] = RPRT(0)
  /\ log[1].op = "goto" /\ log[2].op = "get_position"
  /\ out[2].kind \in {"AZEL", "pos"}
  /\ out[2] # WholeReply(out[2].kind, log[1].az, log[1].el)
  /\ \E a \in Axes : moving[a]

\* The step on which data_received takes a line off its buffer, and the
\* command on that line.
LineTaken == HasLine(buffer) /\ buffer' # buffer
CommandTaken == Strip(FirstLine(buffer))

\* The tracker and its axes are as they were.
TrackerUntouched ==
  /\ log' = log
  /\ UNCHANGED <<state, clients, enabled, position_steps, moving, stop_event, lock,
                 dir, moves, tracking_stop>>

\* The command begins with the characters of lit.
Begins(cmd, lit) == Len(cmd) >= Len(lit) /\ \A i \in 1..Len(lit) : cmd[i] = lit[i]

\* The command matches a pattern of the dispatch table as documented.
Listed(cmd) ==
  \/ Begins(cmd, Lit.AZ) /\ \E i \in 1..(Len(cmd) - 1) : cmd[i] = "E" /\ cmd[i + 1] = "L"
  \/ cmd \in {Lit.AZ, Lit.IP, Lit.SA, Lit.SE, Lit.SA_SE, Lit.VE, Lit.p, Lit.get_pos,
              Lit.S, Lit.stop, Lit.q, Lit.quit}
  \/ Begins(cmd, Lit.P_)
  \/ Begins(cmd, Lit.set_pos_)

\* ... or one of the two further rotctld commands the server answers.
ListedOrInfo(cmd) ==
  Listed(cmd) \/ cmd \in {Lit.underscore, Lit.get_info, Lit.one, Lit.dump_state}

FieldValue(part) == SubSeq(part, 3, Len(part))

\* The command is a set-position command one of whose numeric arguments is
\* not a number (or, for the rotctld form, is missing).
BadArgument(cmd) ==
  LET parts == Split(cmd) IN
    \/ /\ Begins(cmd, Lit.AZ)
       /\ \E i \in 1..(Len(cmd) - 1) : cmd[i] = "E" /\ cmd[i + 1] = "L"
       /\ \E i \in 1..Len(parts) :
            /\ Begins(parts[i], Lit.AZ) \/ Begins(parts[i], Lit.EL)
            /\ FieldValue(parts[i]) # <<>>
            /\ ~Float(FieldValue(parts[i])).ok
    \/ /\ Begins(cmd, Lit.P_) \/ Begins(cmd, Lit.set_pos_)
       /\ \/ Len(parts) < 3
          \/ ~Float(parts[2]).ok
          \/ ~Float(parts[3]).ok

\* C17: a set-position command with a malformed numeric argument is answered
\* RPRT -1, calls no goto and leaves the tracker's targets and axes as they
\* were, and the session stays open and goes on to the next line.
C17_MalformedRejected ==
  [][(LineTaken /\ BadArgument(CommandTaken)) =>
       /\ out' = Append(out, RPRT(0 - 1))
       /\ TrackerUntouched
       /\ closed' = closed
       /\ buffer' = AfterLine(buffer)
       /\ BetweenLines']_vars

\* A malformed set-position line was answered RPRT -1 and the line after it
\* was answered too, with no goto called.
C17_Witness ==
  /\ Len(out) = 2
  /\ out[1] = RPRT(0 - 1)
  /\ out[2].kind = "AZEL"
  /\ ~closed
  /\ \A i \in 1..Len(log) : log[i].op # "goto"
  /\ state.az_target = 0 /\ state.el_target = 0

\* C18: once a quit command has been processed the session writes no
\* further response and dispatches no further command to the tracker, lines
\* that arrived in the same read as the quit included.
C18_QuitEndsSession ==
  [][closed => (out' = out /\ log' = log)]_vars

\* What one call of data_received with the whole of a stream writes and
\* calls, by kind: the replies of a set or a stop are RPRT 0, those of the
\* other lines as in HandleLine.
ReplyKind(d) ==
  CASE d.kind \in {"set", "stop"} -> <<"RPRT 0">>
    [] d.kind = "quit" -> <<>>
    [] d.kind = "malformed" -> <<"RPRT -1">>
    [] d.kind = "unknown" -> <<"RPRT -4">>
    [] OTHER -> <<d.kind>>

CallOf(d) ==
  CASE d.kind = "set" -> <<[op |-> "goto", az |-> d.az, el |-> d.el]>>
    [] d.kind \in {"AZEL", "pos"} -> <<[op |-> "get_position", az |-> 0, el |-> 0]>>
    [] d.kind = "stop" -> <<[op |-> "stop", az |-> 0, el |-> 0]>>
    [] OTHER -> <<>>

RECURSIVE InOneRead(_)
InOneRead(bytes) ==
  IF ~HasLine(bytes) THEN [replies |-> <<>>, calls |-> <<>>]
  ELSE LET line == FirstLine(bytes)
           rest == InOneRead(AfterLine(bytes))
           d == HandleCommand(line)
       IN IF line = <<>> THEN rest
          ELSE [replies |-> ReplyKind(d) \o rest.replies,
                calls |-> CallOf(d) \o rest.calls]

\* The kind of a reply that was written.
KindWritten(r) ==
  CASE r.kind = "RPRT" -> (IF r.code = 0 THEN "RPRT 0"
                           ELSE IF r.code = 0 - 1 THEN "RPRT -1" ELSE "RPRT -4")
    [] r.kind = "text" -> r.what
    [] OTHER -> r.kind

\* Every byte of the stream has been delivered, or the transport is closed,
\* and data_received has returned.
SessionOver ==
  /\ wire = <<>> \/ closed
  /\ BetweenLines
  /\ ~HasLine(buffer)

\* C19: the sequence of responses and of tracker calls a byte stream
\* produces is the same however the stream is split into reads (here: the
\* same as when it arrives in one read), and the bytes after the last
\* newline stay in the buffer.
C19_SplitIndependent ==
  SessionOver =>
    /\ [i \in 1..Len(out) |-> KindWritten(out[i])] = InOneRead(stream).replies
    /\ log = InOneRead(stream).calls

\* The backend the fallback order gives on a host: pigpio when it imports
\* and its daemon is connected, else RPi.GPIO when that imports, else
\* simulation.
Fallback(h) ==
  IF h.pigpio /\ h.daemon = "connected" THEN "pigpio"
  ELSE IF h.gpio THEN "gpio" ELSE "sim"

\* C20: backend selection at start-up never fails: on every host the
\* import and the construction of the tracker and of both axes complete
\* without an error, with the backend the fallback order gives.
C20_StartupNeverFails ==
  /\ boot # "error"
  /\ boot = "done" => backend = Fallback(lib)

\* C21: on every shutdown path of the rotator server (the serve loop ending,
\* SIGINT, SIGTERM) both axes end stopped and disabled, and the pulse backend
\* is released exactly once: never twice, and once when main has left.
C21_ReleasedOnce ==
  /\ released <= 1
  /\ main.in = "exited" =>
       /\ \A a \in Axes : ~enabled[a] /\ ~moving[a]
       /\ released = IF backend = "sim" THEN 0 ELSE 1

\* C22: a stop() issued while a move is in its pulse loop cancels that move,
\* whatever move_to calls are made meanwhile: the move emits at most one more
\* pulse, so it never counts a second step after the call (and so does not
\* finish when two or more steps remained).
C22_StopCancelsLoop ==
  \A a \in Axes, s \in Slots :
    (InLoop(a, s) /\ moves[a][s].seen >= 0) =>
      moves[a][s].step_num <= moves[a][s].seen + 1

\* C23: at most one move is past the lock (planning or in its pulse loop) on
\* an axis at any time, however many move_to calls are in flight on it.
C23_OneMoveInLoop ==
  \A a \in Axes : \A s, t \in Slots :
    (moves[a][s].pc \in {"plan", "check", "pulse", "count"}
       /\ moves[a][t].pc \in {"plan", "check", "pulse", "count"}) => s = t

\* A move is in its pulse loop while a second move_to call on the axis waits.
C23_Witness ==
  \E a \in Axes : \E s, t \in Slots :
    /\ InLoop(a, s) /\ moves[a][s].step_num >= 1
    /\ moves[a][t].pc = "lock"

\* A step in which move_to is called on axis a while a move is in flight on it.
RequestedWhileBusy(a) ==
  /\ \E s \in Slots : InFlight(a, s)
  /\ \E s \in Slots : moves[a][s].pc # "lock" /\ moves'[a][s].pc = "lock"

\* A step in which a move of axis a passes the lock and starts.
Starts(a, s) == moves[a][s].pc = "lock" /\ moves'[a][s].pc = "plan"

\* C24 as stated: a move request on an axis that is busy with a move first
\* requests cancellation of the in-flight move (the cancellation flag is set
\* when the call has been made), so that move does not run on to its target.
C24_RequestCancels ==
  [][\A a \in Axes : RequestedWhileBusy(a) => stop_event'[a]]_vars

\* C24, amended: a move request on a busy axis requests no cancellation (it
\* never sets the cancellation flag), and the new move starts only when the
\* in-flight move has ended and released the lock.
C24_RequestWaits ==
  [][\A a \in Axes :
       /\ RequestedWhileBusy(a) => (stop_event'[a] => stop_event[a])
       /\ \A s \in Slots : Starts(a, s) =>
            /\ lock[a] = NoMove
            /\ \A t \in Slots : ~InLoop(a, t) /\ moves[a][t].pc # "plan"]_vars

\* A move request waits on the lock while the move in flight emits the last
\* pulse towards its own target.
C24_Witness ==
  \E a \in Axes : \E s, t \in Slots :
    /\ moves[a][s].pc = "count"
    /\ moves[a][s].total >= 2 /\ moves[a][s].step_num = moves[a][s].total - 1
    /\ moves[a][t].pc = "lock"
    /\ ~stop_event[a]

\* C25: every write to position_steps (a move step, a homing search step, the
\* homing reset) is made by a thread that holds the axis's lock: on a step
\* that changes the position of an axis, the lock is held by the move that is
\* counting a pulse or by the writer.  home() holds no lock in the model, as
\* in the code, so its writes show as writes with the lock not held by it.
C25_WritesUnderLock ==
  [][\A a \in Axes :
       position_steps'[a] # position_steps[a] =>
         /\ lock[a] # NoMove
         /\ moves[a][lock[a]].pc = "count"
         /\ moves'[a][lock[a]].pc = "check"]_vars

\* C26: in a blocking goto the two axis moves run in parallel: when the call
\* is at a join, both move threads have been started; a move that waits for
\* its axis's lock can take it whenever that lock is free, whatever the other
\* axis is doing.  (That both axes step at once is the witness.)
C26_MovesInParallel ==
  /\ \A c \in Clients :
       clients[c].pc \in {"join_az", "join_el"} =>
         /\ clients[c].saz \in Slots /\ clients[c].sel \in Slots
         /\ moves["az"][clients[c].saz].owner = c
         /\ moves["el"][clients[c].sel].owner = c
  /\ \A a \in Axes, s \in Slots :
       (moves[a][s].pc = "lock" /\ lock[a] = NoMove) => ENABLED MoveAcquire(a, s)

\* A blocking goto is at its first join and both of its moves are inside
\* their pulse loops, each with a step counted.
C26_Witness ==
  \E c \in Clients :
    /\ clients[c].pc = "join_az" /\ clients[c].blocking
    /\ clients[c].saz \in Slots /\ clients[c].sel \in Slots
    /\ InLoop("az", clients[c].saz) /\ moves["az"][clients[c].saz].step_num >= 1
    /\ InLoop("el", clients[c].sel) /\ moves["el"][clients[c].sel].step_num >= 1

\* The records of axis a that a step turns into requested moves.
Issued(a) == {s \in Slots : moves[a][s].pc # "lock" /\ moves'[a][s].pc = "lock"}

\* A step taken by tracking loop k.
ByLoop(k) == loops[k].pc \in {"test", "tick_el"} /\ loops'[k] # loops[k]

TargetsKept ==
  state'.az_target = state.az_target /\ state'.el_target = state.el_target

\* C27 as stated: a tick issues a move for an axis only if that axis's own
\* angular error, as the tick computed it, exceeds the tolerance.
C27_MoveOnlyForAxisInError ==
  [][\A k \in Loops : ByLoop(k) =>
       /\ Issued("az") # {} =>
            \E t \in Feed : ErrorExceeds(cfg["az"], t[1], position_steps["az"],
                                         TrackerCfg.position_tolerance)
                            /\ state'.az_target = t[1]
       /\ Issued("el") # {} => loops[k].over]_vars

\* C27, amended: on a tick at most one move_to is issued per axis and none is
\* awaited (no thread is kept to be joined); a move is issued only on a tick
\* that found the error of at least one axis above the tolerance, the
\* elevation move only after the azimuth move of the same tick; a tick that
\* issues no move leaves the targets unchanged.
C27_MoveOnlyOnError ==
  [][\A k \in Loops : ByLoop(k) =>
       /\ \A a \in Axes :
            /\ Cardinality(Issued(a)) <= 1
            /\ \A s \in Issued(a) : moves'[a][s].owner = NoClient
       /\ Issued("az") # {} =>
            /\ loops[k].pc = "test" /\ loops'[k].pc = "tick_el"
            /\ \E t \in Feed :
                 /\ state'.az_target = t[1] /\ state'.el_target = t[2]
                 /\ \/ ErrorExceeds(cfg["az"], t[1], position_steps["az"],
                                    TrackerCfg.position_tolerance)
                    \/ ErrorExceeds(cfg["el"], t[2], position_steps["el"],
                                    TrackerCfg.position_tolerance)
       /\ Issued("el") # {} => (loops[k].pc = "tick_el" /\ loops'[k].pc = "test")
       /\ (Issued("az") = {} /\ Issued("el") = {}) => TargetsKept]_vars

\* A tick has issued the azimuth move although only the elevation error
\* exceeded the tolerance, and is about to issue the elevation move.
C27_Witness ==
  \E k \in Loops :
    /\ loops[k].pc = "tick_el" /\ loops[k].over
    /\ position_steps["az"] = state.az_target
    /\ \E s \in Slots : moves["az"][s].pc = "lock" /\ moves["az"][s].raw = state.az_target

\* C28: in every move with a non-zero step delta the direction is written
\* once, before the first pulse (on the step that leaves the planning, and
\* not again while the move is in its loop); the level written is forward
\* exactly when target_steps is greater than position_steps; and every pulse
\* of the move goes, and is counted, in that direction.
C28_DirectionOnceAndRight ==
  [][\A a \in Axes, s \in Slots :
       LET m == moves[a][s]
           ahead == ToSteps(cfg[a], m.target) > position_steps[a]
       IN
       /\ (m.pc = "plan" /\ moves'[a][s].pc = "check") =>
            /\ dir'[a] = ahead
            /\ moves'[a][s].sign = IF ahead THEN 1 ELSE 0 - 1
       /\ (InLoop(a, s) /\ moves'[a][s].pc \in {"check", "pulse", "count"}) =>
            dir'[a] = dir[a]
       /\ (m.pc = "pulse" /\ moves'[a][s].pc = "count") =>
            net_pulses'[a] - net_pulses[a] = m.sign
       /\ (m.pc = "count" /\ moves'[a][s].pc = "check") =>
            position_steps'[a] - position_steps[a] = m.sign]_vars

\* C29: an uncancelled move with step delta d emits exactly |d| pulses, one
\* delay per step, for |d| >= 1 and positive speed and acceleration, with a
\* ramp of length 0 and with a triangular profile as well: the plan of such a
\* move sets up |d| steps without raising, each pulse is one pulse, and when
\* the move leaves its loop other than by cancellation it has finished with
\* |d| steps counted.
C29_PulsesEqualDelta ==
  [][\A a \in Axes, s \in Slots :
       LET m == moves[a][s]
           d == MoveDelta(cfg[a], m.target, position_steps[a])
       IN
       (cfg[a].max_speed > 0 /\ cfg[a].acceleration > 0) =>
         /\ (m.pc = "plan" /\ moves'[a][s].pc # "plan" /\ d # 0) =>
              /\ moves'[a][s].pc = "check"
              /\ moves'[a][s].total = Abs(d) /\ moves'[a][s].step_num = 0
         /\ (m.pc = "pulse" /\ moves'[a][s].pc # "pulse") =>
              /\ moves'[a][s].pc = "count"
              /\ Abs(net_pulses'[a] - net_pulses[a]) = 1
              /\ moves'[a][s].step_num = m.step_num
         /\ (m.pc = "count" /\ moves'[a][s].pc # "count") =>
              /\ moves'[a][s].pc = "check"
              /\ moves'[a][s].step_num = m.step_num + 1
         /\ (m.pc = "check" /\ moves'[a][s].pc \notin {"check", "pulse", "count"}) =>
              \/ moves'[a][s].pc = "cancelled"
              \/ moves'[a][s].pc = "done" /\ m.step_num = m.total]_vars

\* A move whose ramp has length 0 has emitted all of its pulses, two or more.
C29_Witness ==
  \E a \in Axes, s \in Slots :
    /\ moves[a][s].pc = "check" /\ moves[a][s].total >= 2
    /\ moves[a][s].step_num = moves[a][s].total
    /\ AccelSteps(cfg[a], moves[a][s].total) = 0
    /\ ~stop_event[a]

\* C30: at every step of every move the step speed is at least the start
\* speed (100 steps/s) and at most max_speed_sps, so each delay is positive,
\* finite and not shorter than 1 / max_speed_sps.
C30_SpeedWithinLimits ==
  \A a \in Axes, s \in Slots :
    moves[a][s].pc = "pulse" =>
      /\ SpeedSq(cfg[a], moves[a][s].total, moves[a][s].step_num) >= MinSq
      /\ SpeedSq(cfg[a], moves[a][s].total, moves[a][s].step_num) <= MaxSq(cfg[a])

\* C31: across the steps of one move the speed never falls over the ramp-up
\* steps and never rises over the ramp-down steps (so the delay is
\* non-increasing, then non-decreasing), and every step between the two ramps
\* runs at exactly max_speed_sps.
C31_TrapezoidWithPlateauAtMax ==
  \A a \in Axes, s \in Slots :
    LET m == moves[a][s]
        n == m.step_num
    IN
    m.pc = "pulse" =>
      /\ (n >= 1 /\ n < AccelSteps(cfg[a], m.total)) =>
           SpeedSq(cfg[a], m.total, n) >= SpeedSq(cfg[a], m.total, n - 1)
      /\ (n > DecelStart(cfg[a], m.total)) =>
           SpeedSq(cfg[a], m.total, n) <= SpeedSq(cfg[a], m.total, n - 1)
      /\ (n >= AccelSteps(cfg[a], m.total) /\ n < DecelStart(cfg[a], m.total)) =>
           SpeedSq(cfg[a], m.total, n) = MaxSq(cfg[a])

\* C32: when the ramp length max_speed_sps^2 / (2 * accel_sps2) exceeds half
\* of total_steps, the profile of the move is triangular and symmetric: step
\* i and step total_steps - 1 - i have the same speed for every i, and no
\* step lies between the ramp-up and the ramp-down.
C32_TriangularSymmetric ==
  \A a \in Axes, s \in Slots :
    LET m == moves[a][s]
        ramp == ((MaxSpeed360(cfg[a]) * MaxSpeed360(cfg[a])) \div 720)
                  \div Accel360(cfg[a])
    IN
    (m.pc = "pulse" /\ 2 * ramp > m.total) =>
      /\ AccelSteps(cfg[a], m.total) = m.total \div 2
      /\ \A i \in 0..(m.total - 1) :
           SpeedSq(cfg[a], m.total, i) = SpeedSq(cfg[a], m.total, m.total - 1 - i)
      /\ DecelStart(cfg[a], m.total) = AccelSteps(cfg[a], m.total)

\* The step home() takes on axis a right after reading its switch: it leaves
\* the head of the search loop without returning.
SwitchRead(a) ==
  /\ homing[a].pc = "search"
  /\ homing'[a].pc \notin {"search", "returned"}

ValidConfig(c) ==
  /\ c.gear_ratio # 0 /\ c.steps_per_rev # 0 /\ c.microstepping # 0
  /\ c.min_angle <= c.max_angle

\* C34: a tracker whose construction has succeeded has two valid axis
\* configurations: a gear ratio, steps-per-rev or microstepping of 0, or a
\* min_angle above max_angle, makes the construction fail.
C34_InvalidConfigFailsAtStartup ==
  boot = "done" => \A a \in Axes : ValidConfig(cfg[a])

\* A run of _execute_move on axis a that was requested by a blocking move_to
\* while the cancellation flag was set: the flag is set, and no stop() has
\* been called since the request (a non-blocking request would have cleared
\* the flag).
RequestedUnderStop(a, s) ==
  /\ stop_event[a] /\ InFlight(a, s) /\ ~moves[a][s].pre

\* C35: once stop() has set the cancellation flag of an axis, only a
\* non-blocking move_to clears it; while it is set, a blocking move_to called
\* after the stop() emits no pulse and changes no position, and a home() that
\* comes to its first test of the flag emits no pulse, changes no position
\* and returns False.
C35_FlagStaysUntilNonBlockingMove ==
  [][\A a \in Axes :
       /\ (stop_event[a] /\ ~stop_event'[a]) =>
            \E s \in Slots : ~InFlight(a, s) /\ moves'[a][s].pc = "lock"
       /\ \A s \in Slots :
            (RequestedUnderStop(a, s) /\ moves'[a][s] # moves[a][s]) =>
              /\ net_pulses'[a] = net_pulses[a]
              /\ position_steps'[a] = position_steps[a]
              /\ moves'[a][s].pc # "pulse"
       /\ (stop_event[a] /\ homing[a].pc = "search" /\ homing[a].i = 0
             /\ homing'[a] # homing[a]) =>
              /\ homing'[a].pc = "returned" /\ ~homing'[a].result
              /\ net_pulses'[a] = net_pulses[a]
              /\ position_steps'[a] = position_steps[a]]_vars

\* stop() has returned, and with its flag still set a blocking move_to to a
\* target some steps away has come to the head of its pulse loop.
C35_Witness ==
  /\ stopper.pc = "idle"
  /\ \E s \in Slots : /\ RequestedUnderStop("az", s)
                        /\ moves["az"][s].pc = "check"
                        /\ moves["az"][s].total >= 2

\* C36: at most one thread running _tracking_loop is alive at any time,
\* whatever start_tracking and stop_tracking calls are made, also when the
\* join of stop_tracking comes back before the old loop has ended.
C36_OneTrackingLoop ==
  Cardinality({k \in Loops : Alive(k)}) <= 1

\* C37: an axis emits a step pulse, and its position_steps changes, only in
\* states in which the motors are enabled (motors_enabled is true and the
\* axis's enable pin is at its active level).
C37_StepsOnlyWhileEnabled ==
  [][\A a \in Axes :
       (net_pulses'[a] # net_pulses[a] \/ position_steps'[a] # position_steps[a]) =>
         (state.motors_enabled /\ enabled[a])]_vars

\* A goto has a move still to launch, or a move is in flight.
SlewPending ==
  \/ \E c \in Clients : clients[c].pc \in {"goto_az", "goto_el"}
  \/ \E a \in Axes, s \in Slots : InFlight(a, s)

\* C38: is_slewing is true in every state in which a move launched by a
\* goto, blocking or not, is still in flight, and it becomes false only when
\* both moves of the goto have finished or been stopped.
C38_SlewingWhileMovesInFlight ==
  /\ []((\E a \in Axes, s \in Slots : InFlight(a, s)) => state.is_slewing)
  /\ [][(state.is_slewing /\ ~state'.is_slewing) => ~SlewPending]_vars

\* The steps of the target the last goto call gave axis a.
LastIssued(a) ==
  ToSteps(cfg[a], Clamp(cfg[a], IF a = "az" THEN state.az_target ELSE state.el_target))

\* C39: when the non-blocking move_to calls issued on an axis have all run
\* to completion, none of them cancelled, the axis is at the target of the
\* call issued last: the queued moves took the lock in the order of issue.
C39_LastIssuedMoveWins ==
  ((\A c \in Clients : Idle(c)) /\ (\A a \in Axes : AtRest(a) /\ ~stop_event[a])) =>
    \A a \in Axes : position_steps[a] = LastIssued(a)

====
